---- MODULE Spec2Model ----
(***************************************************************************)
(* Model of the dashboard-analytics repository: the period normalizer      *)
(* (AdAnalytics._sort_periods_chronologically), the win-rate metric        *)
(* (NotionService.calculate_win_rate), the aggregation queries of          *)
(* AdAnalytics, and the chart endpoints that serve them.                   *)
(*                                                                         *)
(* Strings are TLC strings, read character by character with SubSeq.       *)
(* A pandas missing value (NaN / None) of a text column is the string NaN; *)
(* a missing date (NaT) or number is the empty tuple.  A date is           *)
(* <<year, month, day>>; a Timestamp used as a sort key is its proleptic   *)
(* Gregorian ordinal (date.toordinal()).                                   *)
(***************************************************************************)
EXTENDS Integers, Sequences, FiniteSets, TLC

VARIABLES
    periods,          \* argument of _sort_periods_chronologically
    parsed_periods,   \* its local list of (label, key) pairs, after the sort
    sorted_periods,   \* its return value
    sort_called,      \* whether the function has returned
    group,            \* the frame handed to calculate_win_rate
    win_rate,         \* what calculate_win_rate did with it
    self_df,          \* AdAnalytics.df, the table the queries read
    query,            \* the query that was called, with its arguments
    result,           \* what the query returned
    fetched_df,       \* the table fetch_data gave AdAnalytics.__init__
    previous,         \* what the call before returned, where it had the same arguments
    reused,           \* whether the instance is queried more than once
    charts,           \* UserChartAccess.charts of each user who is not a superuser
    request,          \* the last request or WebSocket message
    response,         \* what its handler sent back
    ws_user,          \* the user of the open WebSocket, "none" without one
    is_streaming,     \* ChartStreamConsumer.is_streaming
    scope_user,       \* scope["user"] of the consumer, "none" without one
    connection,       \* the WebSocket: "new", "rejected", "open" or "closed"
    handler,          \* the consumer method that waits for its send, or "idle"
    streaming_task,   \* ChartStreamConsumer.streaming_task: 0 is None
    tasks,            \* every task created for stream_data, with its state
    events,           \* the messages the client got, and "disconnect"
    users,            \* the rows of auth_user, a row's id is its index
    chart_access,     \* the rows of UserChartAccess
    invites,          \* the InviteUserView.post calls that are under way
    http              \* the last response of the user views

sortVars == <<periods, parsed_periods, sorted_periods, sort_called>>

rateVars == <<group, win_rate>>

engineVars == <<self_df, query, result, fetched_df, previous, reused>>

accessVars == <<charts, request, response, ws_user, is_streaming>>

streamVars == <<scope_user, connection, handler, streaming_task, tasks, events>>

userVars == <<users, chart_access, invites, http>>

vars == <<sortVars, rateVars, engineVars, accessVars, streamVars, userVars>>

-----------------------------------------------------------------------------
(* Bounds *)

MaxLabels == 3

MaxGroupRows == 3

MaxRows == 2

MaxColumnRows == 1

\* Rows of a table that is queried more than once
MaxRepeatRows == 2

\* Tasks one consumer creates for stream_data
MaxTasks == 2

\* Messages and connection events of one consumer
MaxEvents == 6

\* Rows of auth_user
MaxUsers == 3

MaxGranted == 1

-----------------------------------------------------------------------------
(* Python str operations *)

Char(s, i) == SubSeq(s, i, i)

Range(seq) == {seq[i] : i \in 1..Len(seq)}

Count(seq, x) == Cardinality({i \in 1..Len(seq) : seq[i] = x})

\* Series.unique(): the distinct values in the order they first occur
\* seq with x appended unless seq holds it
AppendNew(seq, x) == IF x \in Range(seq) THEN seq ELSE seq \o <<x>>

\* The distinct values, the one seen last first
RECURSIVE UniqueNewestFirst(_)
UniqueNewestFirst(seq) ==
    IF seq = << >> THEN << >>
    ELSE IF seq[Len(seq)] \in Range(SubSeq(seq, 1, Len(seq) - 1))
    THEN UniqueNewestFirst(SubSeq(seq, 1, Len(seq) - 1))
    ELSE <<seq[Len(seq)]>> \o UniqueNewestFirst(SubSeq(seq, 1, Len(seq) - 1))

RECURSIVE Unique(_)
Unique(seq) ==
    IF seq = << >> THEN << >>
    ELSE AppendNew(Unique(SubSeq(seq, 1, Len(seq) - 1)), seq[Len(seq)])

\* c in s, for a single character c
Contains(s, c) == \E i \in 1..Len(s) : Char(s, i) = c

LowerAlphabet == "abcdefghijklmnopqrstuvwxyz"

UpperAlphabet == "ABCDEFGHIJKLMNOPQRSTUVWXYZ"

\* Characters in ASCII order: the order Python compares strings by.
AsciiOrder == " -/0123456789" \o UpperAlphabet \o LowerAlphabet

IndexIn(alphabet, c) ==
    IF Contains(alphabet, c)
    THEN CHOOSE i \in 1..Len(alphabet) : Char(alphabet, i) = c
    ELSE 0

\* The code point order of the characters, and the case maps, as tables
AsciiRank == [c \in {Char(AsciiOrder, i) : i \in 1..Len(AsciiOrder)} |->
                 IndexIn(AsciiOrder, c)]

UpperTable == [c \in {Char(LowerAlphabet, i) : i \in 1..26} |->
                  Char(UpperAlphabet, IndexIn(LowerAlphabet, c))]

LowerTable == [c \in {Char(UpperAlphabet, i) : i \in 1..26} |->
                  Char(LowerAlphabet, IndexIn(UpperAlphabet, c))]

UpperChar(c) == IF c \in DOMAIN UpperTable THEN UpperTable[c] ELSE c

LowerChar(c) == IF c \in DOMAIN LowerTable THEN LowerTable[c] ELSE c

RECURSIVE MapChars(_, _)
MapChars(s, upper) ==
    IF s = "" THEN ""
    ELSE (IF upper THEN UpperChar(Head(s)) ELSE LowerChar(Head(s)))
         \o MapChars(Tail(s), upper)

\* str.upper() and str.lower()
Upper(s) == MapChars(s, TRUE)

Lower(s) == MapChars(s, FALSE)

RECURSIVE LStrip(_)
LStrip(s) == IF s # "" /\ Head(s) = " " THEN LStrip(Tail(s)) ELSE s

RECURSIVE RStrip(_)
RStrip(s) ==
    IF s # "" /\ Char(s, Len(s)) = " " THEN RStrip(SubSeq(s, 1, Len(s) - 1)) ELSE s

\* str.strip()
Strip(s) == RStrip(LStrip(s))

StartsWith(s, prefix) ==
    Len(s) >= Len(prefix) /\ SubSeq(s, 1, Len(prefix)) = prefix

\* str.replace(c, r) for a single character c
RECURSIVE Replace(_, _, _)
Replace(s, c, r) ==
    IF s = "" THEN ""
    ELSE (IF Head(s) = c THEN r ELSE Head(s)) \o Replace(Tail(s), c, r)

\* str.split(sep): the parts between the non-overlapping occurrences of sep,
\* found left to right
RECURSIVE SplitFrom(_, _, _)
SplitFrom(s, sep, acc) ==
    IF s = "" THEN <<acc>>
    ELSE IF StartsWith(s, sep)
         THEN <<acc>> \o SplitFrom(SubSeq(s, Len(sep) + 1, Len(s)), sep, "")
         ELSE SplitFrom(Tail(s), sep, acc \o Head(s))

Split(s, sep) == SplitFrom(s, sep, "")

Digits == "0123456789"

IsDigit(c) == Contains(Digits, c)

AllDigits(s) == s # "" /\ \A i \in 1..Len(s) : IsDigit(Char(s, i))

RECURSIVE DigitsValue(_, _)
DigitsValue(s, acc) ==
    IF s = "" THEN acc
    ELSE DigitsValue(Tail(s), acc * 10 + IndexIn(Digits, Head(s)) - 1)

\* int(s): <<n>> for the value, << >> where Python raises ValueError.  Python
\* strips blanks and takes one sign before the digits.
\* int() of a stripped string: an optional sign, then digits
IntOfStripped(t) ==
    IF t # "" /\ Head(t) = "-"
    THEN (IF AllDigits(Tail(t)) THEN <<-DigitsValue(Tail(t), 0)>> ELSE << >>)
    ELSE IF t # "" /\ Head(t) = "+"
    THEN (IF AllDigits(Tail(t)) THEN <<DigitsValue(Tail(t), 0)>> ELSE << >>)
    ELSE IF AllDigits(t) THEN <<DigitsValue(t, 0)>>
    ELSE << >>

ToInt(s) == IntOfStripped(Strip(s))

\* ''.join(filter(str.isdigit, s))
RECURSIVE OnlyDigits(_)
OnlyDigits(s) ==
    IF s = "" THEN ""
    ELSE (IF IsDigit(Head(s)) THEN Head(s) ELSE "") \o OnlyDigits(Tail(s))

\* str.zfill(width)
RECURSIVE ZFill(_, _)
ZFill(s, width) == IF Len(s) >= width THEN s ELSE ZFill("0" \o s, width)

\* str(n) for n >= 0
RECURSIVE IntToStr(_)
IntToStr(n) ==
    IF n < 10 THEN Char(Digits, n + 1)
    ELSE IntToStr(n \div 10) \o Char(Digits, (n % 10) + 1)

\* Python's < on str: lexicographic by code point
RECURSIVE StrLess(_, _)
StrLess(a, b) ==
    IF b = "" THEN FALSE
    ELSE IF a = "" THEN TRUE
    ELSE IF Head(a) = Head(b) THEN StrLess(Tail(a), Tail(b))
    ELSE AsciiRank[Head(a)] < AsciiRank[Head(b)]


-----------------------------------------------------------------------------
(* Calendar: datetime / pandas.Timestamp arithmetic *)

IsLeap(y) == (y % 4 = 0 /\ y % 100 # 0) \/ y % 400 = 0

DaysInMonth(y, m) ==
    IF m = 2 THEN (IF IsLeap(y) THEN 29 ELSE 28)
    ELSE IF m \in {4, 6, 9, 11} THEN 30 ELSE 31

DaysBeforeYear(y) ==
    (y - 1) * 365 + ((y - 1) \div 4) - ((y - 1) \div 100) + ((y - 1) \div 400)

RECURSIVE DaysBeforeMonth(_, _)
DaysBeforeMonth(y, m) ==
    IF m = 1 THEN 0 ELSE DaysBeforeMonth(y, m - 1) + DaysInMonth(y, m - 1)

\* date(y, m, d).toordinal()
Ordinal(y, m, d) == DaysBeforeYear(y) + DaysBeforeMonth(y, m) + d

\* date.weekday(): Monday is 0
Weekday(ord) == (ord + 6) % 7

\* date.fromordinal(ord), as <<y, m, d>>
\* The year, and the month of that year, that hold the day ord
YearOf(ord) ==
    CHOOSE y \in (ord \div 366)..((ord \div 365) + 1) :
        DaysBeforeYear(y) < ord /\ ord <= DaysBeforeYear(y + 1)

MonthOf(y, day_of_year) ==
    CHOOSE m \in 1..12 :
        /\ DaysBeforeMonth(y, m) < day_of_year
        /\ day_of_year <= DaysBeforeMonth(y, m) + DaysInMonth(y, m)

DateInMonth(y, m, day_of_year) == <<y, m, day_of_year - DaysBeforeMonth(y, m)>>

DateInYear(y, day_of_year) == DateInMonth(y, MonthOf(y, day_of_year), day_of_year)

DateOfYear(y, ord) == DateInYear(y, ord - DaysBeforeYear(y))

FromOrdinal(ord) == DateOfYear(YearOf(ord), ord)

\* pd.Timestamp.min is 1677-09-21 00:12:43.145224193 and pd.Timestamp.max is
\* 2262-04-11 23:47:16.854775807; no label parses to either day.
Timestamp_min == Ordinal(1677, 9, 21)

Timestamp_max == Ordinal(2262, 4, 11)

\* pd.Timestamp(year=, month=, day=): <<ordinal>>, or << >> where it raises
\* (ValueError for a field out of range, OutOfBoundsDatetime for the year).
Timestamp(year, month, day) ==
    IF /\ year \in 1..9999
       /\ month \in 1..12
       /\ day >= 1
       /\ day <= DaysInMonth(year, month)
       /\ Ordinal(year, month, day) > Timestamp_min
       /\ Ordinal(year, month, day) < Timestamp_max
    THEN <<Ordinal(year, month, day)>>
    ELSE << >>

MonthAbbr == <<"jan", "feb", "mar", "apr", "may", "jun",
               "jul", "aug", "sep", "oct", "nov", "dec">>

MonthFull == <<"january", "february", "march", "april", "may", "june", "july",
               "august", "september", "october", "november", "december">>

\* strptime with '%b %Y' or '%B %Y' (names): a month name in any case, white
\* space, a four-digit year, and nothing else.
\* The number of the month with the given name, 0 when there is none
MonthNumber(names, name) ==
    IF \E m \in 1..12 : names[m] = name THEN CHOOSE m \in 1..12 : names[m] = name
    ELSE 0

\* The fields of '%b %Y': name, white space, year
MonthYearOf(parts, names) ==
    IF /\ Len(parts) >= 2
       /\ \A i \in 2..(Len(parts) - 1) : parts[i] = ""
       /\ Len(parts[Len(parts)]) = 4 /\ AllDigits(parts[Len(parts)])
    THEN Timestamp(DigitsValue(parts[Len(parts)], 0), MonthNumber(names, Lower(parts[1])), 1)
    ELSE << >>

StrptimeMonthYear(s, names) == MonthYearOf(Split(s, " "), names)

\* strptime with '%Y-%m': four digits, '-', a month of one or two digits
\* The fields of '%Y-%m'
YearMonthOf(parts) ==
    IF /\ Len(parts) = 2
       /\ Len(parts[1]) = 4 /\ AllDigits(parts[1])
       /\ Len(parts[2]) \in {1, 2} /\ AllDigits(parts[2])
    THEN Timestamp(DigitsValue(parts[1], 0), DigitsValue(parts[2], 0), 1)
    ELSE << >>

StrptimeYearMonth(s) == YearMonthOf(Split(s, "-"))

\* The date-string parser behind pd.Period(s) and pd.to_datetime(s), for the
\* forms the period labels of this program take: 'YYYY-MM' and 'YYYY-MM-DD'
\* give that day (the 1st for a month).  Every other label of the model (a
\* week label with 'W', a 'start/end' week range, free text) is no date
\* string and raises.
\* The fields of 'YYYY-MM' or 'YYYY-MM-DD'
DateOf(parts) ==
    IF Len(parts) = 2 THEN YearMonthOf(parts)
    ELSE IF /\ Len(parts) = 3
            /\ Len(parts[1]) = 4 /\ AllDigits(parts[1])
            /\ Len(parts[2]) = 2 /\ AllDigits(parts[2])
            /\ Len(parts[3]) = 2 /\ AllDigits(parts[3])
    THEN Timestamp(DigitsValue(parts[1], 0), DigitsValue(parts[2], 0),
                   DigitsValue(parts[3], 0))
    ELSE << >>

ParseDateString(s) == DateOf(Split(s, "-"))

\* pd.Period(s, freq='W').start_time: the Monday of the week of the date
\* The Monday of the week of dt
WeekStart(dt) == IF dt = << >> THEN << >> ELSE <<dt[1] - Weekday(dt[1])>>

PeriodWeekStart(s) == WeekStart(ParseDateString(s))

\* pd.Period(s, freq='M').start_time: the first day of the month of the date
\* The first day of the month of a date
FirstOfMonth(date) == Ordinal(date[1], date[2], 1)

MonthStart(dt) == IF dt = << >> THEN << >> ELSE <<FirstOfMonth(FromOrdinal(dt[1]))>>

PeriodMonthStart(s) == MonthStart(ParseDateString(s))

\* pd.to_datetime(f'{year}-W{week}-1', format='%Y-W%W-%w'): the Monday of week
\* `week` of the year, weeks counted from the year's first Monday (the days
\* before it are week 0).
\* A day inside the Timestamp range, as <<ordinal>>
InRange(ord) == IF ord > Timestamp_min /\ ord < Timestamp_max THEN <<ord>> ELSE << >>

\* The day of the year of the Monday of week week_of_year, where the first
\* day of the year is the weekday first_weekday
MondayOfWeek(week_of_year, first_weekday) ==
    IF week_of_year = 0 THEN 1 - first_weekday
    ELSE 1 + ((7 - first_weekday) % 7) + 7 * (week_of_year - 1)

MondayInYear(new_year, week_of_year) ==
    InRange(new_year - 1 + MondayOfWeek(week_of_year, Weekday(new_year)))

StrptimeYearWeekMonday(year_part, week_part) ==
    IF /\ Len(year_part) = 4 /\ AllDigits(year_part)
       /\ Len(week_part) = 2 /\ AllDigits(week_part)
       /\ DigitsValue(week_part, 0) <= 53
       /\ DigitsValue(year_part, 0) >= 1
    THEN MondayInYear(Ordinal(DigitsValue(year_part, 0), 1, 1), DigitsValue(week_part, 0))
    ELSE << >>

-----------------------------------------------------------------------------
(* Tables.  A DataFrame is [columns |-> the column names, rows |-> the rows   *)
(* in index order]; a row maps column names to values.                        *)

\* The missing value of a text column; str(NaN) is 'nan'
NaN == "nan"

\* The missing value of a date or number column
NaT == << >>

Frame(columns, rows) == [columns |-> columns, rows |-> rows]

\* DataFrame.empty: an axis of length 0
IsEmpty(df) == df.rows = << >> \/ df.columns = {}

\* Series.str.lower(): a missing value stays missing
StrLower(v) == IF v = NaN THEN NaN ELSE Lower(v)

\* len(df[df['Status'].str.lower() == status])
CountStatus(rows, status) ==
    Cardinality({i \in 1..Len(rows) : StrLower(rows[i]["Status"]) = status})

\* round(num / den, 0) as Python and numpy round: to nearest, ties to even
RoundHalfEven(num, den) ==
    LET q == num \div den
        r == num % den
    IN  IF 2 * r > den \/ (2 * r = den /\ q % 2 = 1) THEN q + 1 ELSE q

-----------------------------------------------------------------------------
(* AdAnalytics: period keys *)

\* Series.dt.to_period('M').astype(str)
ToPeriodM(date) ==
    IF date = NaT THEN "NaT"
    ELSE IntToStr(date[1]) \o "-" \o ZFill(IntToStr(date[2]), 2)

\* Series.dt.to_period('Q').astype(str)
ToPeriodQ(date) ==
    IF date = NaT THEN "NaT"
    ELSE IntToStr(date[1]) \o "Q" \o IntToStr(((date[2] - 1) \div 3) + 1)

FormatDate(date) ==
    IntToStr(date[1]) \o "-" \o ZFill(IntToStr(date[2]), 2)
        \o "-" \o ZFill(IntToStr(date[3]), 2)

\* The week from monday to the Sunday after it
WeekLabel(monday) ==
    FormatDate(FromOrdinal(monday)) \o "/" \o FormatDate(FromOrdinal(monday + 6))

WeekOf(ord) == WeekLabel(ord - Weekday(ord))

\* Series.dt.to_period('W').astype(str): 'Monday/Sunday' of the date's week
ToPeriodW(date) ==
    IF date = NaT THEN "NaT" ELSE WeekOf(Ordinal(date[1], date[2], date[3]))

\* The Period is always derived from Launch Date
RatePeriodFromDate(columns, row, period) ==
    IF period = "week" THEN ToPeriodW(row["Launch Date"])
    ELSE IF period = "quarter" THEN ToPeriodQ(row["Launch Date"])
    ELSE ToPeriodM(row["Launch Date"])

\* The Period of a row in the rate, time and volume queries
RatePeriod(columns, row, period) ==
    IF period = "week"
    THEN (IF "Launch YY-WW" \in columns THEN row["Launch YY-WW"]
          ELSE ToPeriodW(row["Launch Date"]))
    ELSE IF period = "quarter" THEN ToPeriodQ(row["Launch Date"])
    ELSE IF "Launch Month" \in columns THEN row["Launch Month"]
    ELSE ToPeriodM(row["Launch Date"])

\* A week request takes the week, as in the rate queries
RatioPeriodWithWeeks(columns, row, period) == RatePeriod(columns, row, period)

\* The Period of a row in the ratio queries: a week request takes the month
RatioPeriod(columns, row, period) ==
    IF period = "quarter" THEN ToPeriodQ(row["Launch Date"])
    ELSE IF "Launch Month" \in columns THEN row["Launch Month"]
    ELSE ToPeriodM(row["Launch Date"])

-----------------------------------------------------------------------------
(* The inputs the model draws from *)

\* The labels given to the normalizer on its own
SortLabels ==
    {"Jan 2024", "Feb 2024", "Mar 2024", " Feb 2024", "2023-12", "2024-02",
     "2023Q4", "2024Q1", "2024-Q1", "2024-W02", "garbage"}

\* The columns the queries read
AllColumns ==
    {"Launch Date", "Launch Month", "Launch YY-WW", "Status", "Strategist",
     "Editor/Designer", "Product", "Type", "Format",
     "Ad time to ready (days)", "Editing Duration (minutes)"}

\* A row: its dates, its Status, one name for its Strategist, Editor/Designer,
\* Product, Type and Format, its production days and its editing minutes
Row(date, month, week, status, who, days, minutes) ==
    [c \in AllColumns |->
        CASE c = "Launch Date" -> date
          [] c = "Launch Month" -> month
          [] c = "Launch YY-WW" -> week
          [] c = "Status" -> status
          [] c = "Ad time to ready (days)" -> days
          [] c = "Editing Duration (minutes)" -> minutes
          [] OTHER -> who]

EngineRows ==
    {Row(<<2024, 1, 15>>, "Jan 2024", "2024-W03", "Winner", "Bob", <<3>>, <<90>>),
     Row(<<2024, 1, 15>>, "Jan 2024", "2024-W03", "loser", "Bob", <<4>>, <<30>>),
     Row(<<2024, 1, 15>>, "Jan 2024", "2024-W03", "Pending", "Ann", NaT, NaT),
     Row(<<2024, 2, 10>>, "Feb 2024", "2024-W06", "Winner", "Ann", <<0>>, <<60>>),
     Row(<<2024, 2, 10>>, "Feb 2024", "2024-W06", "loser", "Bob", <<2>>, <<45>>),
     Row(<<2024, 2, 10>>, "Feb 2024", "2024-W06", "WINNER", NaN, <<5>>, <<120>>),
     Row(<<2024, 4, 5>>, "Apr 2024", "2024-W14", "Launched", "", <<2>>, <<45>>),
     Row(<<2024, 4, 5>>, "Apr 2024", "2024-W14", "Winner", "Ann", <<-1>>, <<20>>),
     Row(NaT, "Jan 2024", "2024-W03", "Winner", "Bob", <<3>>, <<90>>),
     Row(NaT, "Feb 2024", "2024-W06", "loser", "Ann", <<1>>, <<30>>)}

\* The arguments of the queries; "" is an argument not given (None)
PeriodArgs == {"month", "week", "quarter"}

StrategistArgs == {"", "Bob"}

EditorArgs == {"", "Ann"}

StatusArgs == {"", "winner"}

\* Every label the model hands to the normalizer
KnownLabels ==
    SortLabels
    \cup {RatePeriod(columns, row, period) :
            columns \in {AllColumns, {"Launch Date"}},
            row \in {r \in EngineRows : r["Launch Date"] # NaT},
            period \in PeriodArgs}

-----------------------------------------------------------------------------
(* AdAnalytics._sort_periods_chronologically *)

\* Quarter branch: parts = period_str.replace('Q', '-Q').split('-Q')
\* The first day of the quarter, where both fields are numbers
QuarterStart(year, quarter) ==
    IF year = << >> \/ quarter = << >> THEN << >>
    ELSE Timestamp(year[1], (quarter[1] - 1) * 3 + 1, 1)

QuarterOf(parts) == QuarterStart(ToInt(parts[1]), ToInt(parts[2]))

ParseQuarter(period_str) == QuarterOf(Split(Replace(period_str, "Q", "-Q"), "-Q"))

\* Week branch: pd.Period(freq='W'), else year_part and the digits after it
\* The result of a try, or of its except branch where the try raised
OrElse(tried, otherwise) == IF tried # << >> THEN tried ELSE otherwise

ParseWeek(period_str) ==
    OrElse(PeriodWeekStart(period_str),
           StrptimeYearWeekMonday(SubSeq(period_str, 1, 4),
                                  ZFill(OnlyDigits(SubSeq(period_str, 5, Len(period_str))), 2)))

\* Month branch: pd.Period(freq='M'), else strptime '%Y-%m'
ParseMonth(period_str) == OrElse(PeriodMonthStart(period_str), StrptimeYearMonth(period_str))

\* Last branch: '%b %Y', else '%B %Y', else pd.to_datetime(period_str)
ParseFreeDate(period_str) ==
    OrElse(StrptimeMonthYear(period_str, MonthAbbr),
           OrElse(StrptimeMonthYear(period_str, MonthFull), ParseDateString(period_str)))

\* A parser that hands every label to the last rule
ParseAsFreeDate(period_str) == ParseFreeDate(period_str)

\* The dt of one label: <<ordinal>>, or << >> where the inner try raises
\* The branch taken for one stripped label
ParseStripped(period_str) ==
    IF Contains(period_str, "Q") THEN ParseQuarter(period_str)
    ELSE IF Contains(Upper(period_str), "W") THEN ParseWeek(period_str)
    ELSE IF Contains(period_str, "-") /\ Len(period_str) <= 7
    THEN ParseMonth(period_str)
    ELSE ParseFreeDate(period_str)

ParsePeriod(period) == ParseStripped(Strip(period))

\* A fallback key that sorts last instead of first
FallbackKeyMax == Timestamp_max

\* The key appended for a label whose parsing raised
FallbackKey == Timestamp_min

\* ParsePeriod, computed once for each label the model uses
ParsedLabels == [label \in KnownLabels |-> ParsePeriod(label)]

Parsed(period) == ParsedLabels[period]

\* The key of a label: its dt, or the fallback where the parsing raised
KeyOf(parsed) == IF parsed = << >> THEN FallbackKey ELSE parsed[1]

\* One element of parsed_periods: (period, dt) with the original label
ParsedPair(period) == <<period, KeyOf(Parsed(period))>>

\* A sort that puts a pair before the pairs of the same key
RECURSIVE InsertBeforeEqual(_, _)
InsertBeforeEqual(sorted, pair) ==
    IF sorted = << >> THEN <<pair>>
    ELSE IF pair[2] <= sorted[Len(sorted)][2]
         THEN InsertBeforeEqual(SubSeq(sorted, 1, Len(sorted) - 1), pair)
              \o <<sorted[Len(sorted)]>>
         ELSE sorted \o <<pair>>

\* list.sort(key=lambda x: x[1]): ascending and stable
RECURSIVE InsertByKey(_, _)
InsertByKey(sorted, pair) ==
    IF sorted = << >> THEN <<pair>>
    ELSE IF pair[2] < sorted[Len(sorted)][2]
         THEN InsertByKey(SubSeq(sorted, 1, Len(sorted) - 1), pair)
              \o <<sorted[Len(sorted)]>>
         ELSE sorted \o <<pair>>

RECURSIVE SortByKey(_)
SortByKey(pairs) ==
    IF pairs = << >> THEN << >>
    ELSE InsertByKey(SortByKey(SubSeq(pairs, 1, Len(pairs) - 1)), pairs[Len(pairs)])

\* parsed_periods after the sort
SortedPairs(labels) == SortByKey([i \in 1..Len(labels) |-> ParsedPair(labels[i])])

\* A result that holds the stripped labels instead of the labels as given
LabelsStripped(pairs) == [i \in 1..Len(pairs) |-> Strip(pairs[i][1])]

\* The labels of a list of (label, key) pairs
Labels(pairs) == [i \in 1..Len(pairs) |-> pairs[i][1]]

\* A normalizer that returns each label once, whatever the input holds
SortDeduplicated(labels) == Unique(Labels(SortedPairs(labels)))

\* return [p[0] for p in parsed_periods]
_sort_periods_chronologically(labels) == Labels(SortedPairs(labels))

-----------------------------------------------------------------------------
(* AdAnalytics: results.  A rate or a mean is in hundredths, a count is a   *)
(* count.                                                                   *)

Series(labels, data) ==
    [labels |-> labels, data |-> data, shape |-> "series", datasets |-> << >>]

Sliced(labels, datasets) ==
    [labels |-> labels, data |-> << >>, shape |-> "sliced", datasets |-> datasets]

KeyError == [labels |-> << >>, data |-> << >>, shape |-> "KeyError", datasets |-> << >>]

NoResult == [labels |-> << >>, data |-> << >>, shape |-> "none", datasets |-> << >>]

\* No query was called yet
NoQuery == [name |-> "none", status |-> "", period |-> "", strategist |-> "", editor |-> ""]

Query(name, period, strategist, editor, status) ==
    [name |-> name, status |-> status, period |-> period, strategist |-> strategist,
     editor |-> editor]

-----------------------------------------------------------------------------
(* Users, chart access and the endpoints that serve the charts *)

\* users.models.CHART_CHOICES: the chart keys
CHART_CHOICES ==
    {"win_rate", "win_rate_strategist", "win_rate_product", "win_rate_adtype",
     "adtype_ratio", "product_ratio", "format_ratio", "production_time",
     "editing_time", "creatives_volume"}

\* The accounts, and the user of a request without a session
Users == {"admin", "alice"}

AnonymousUser == "anonymous"

Requesters == Users \cup {AnonymousUser}

is_superuser(user) == user = "admin"

is_authenticated(user) == user \in Users

\* The lists a superuser can give to UserChartAccess.charts
ChartLists == {list \in SUBSET CHART_CHOICES : Cardinality(list) <= MaxGranted}

Request(user, target, chart) == [user |-> user, target |-> target, chart |-> chart]

\* What a handler sent back: body names its content, chart the chart whose
\* data it carries, allowed_charts the template's list
Response(body, chart, allowed_charts) ==
    [body |-> body, chart |-> chart, allowed_charts |-> allowed_charts]

NoRequest == Request("", "none", "")

NoResponse == Response("none", "", {})

\* LoginRequiredMixin.handle_no_permission for a request without a session
RedirectToLogin == Response("redirect to login", "", {})

AccessIdle ==
    /\ charts = [user \in Users \ {"admin"} |-> {}]
    /\ request = NoRequest
    /\ response = NoResponse
    /\ ws_user = "none"
    /\ is_streaming = FALSE

\* A scope without a user
NoUser == "none"

\* ChartStreamConsumer.__init__, before the connection is handled
StreamIdle ==
    /\ scope_user = NoUser
    /\ connection = "new"
    /\ handler = "idle"
    /\ streaming_task = 0
    /\ tasks = << >>
    /\ events = << >>

\* A row of auth_user
UserRow(username, email, active, superuser) ==
    <<username, email, active, superuser>>

\* An InviteUserView.post call: where it is, its email, username and counter
Invite(at, email, username, counter) == <<at, email, username, counter>>

NoInvite == Invite("none", "", "", 1)

\* The calls of InviteUserView.post that can be under way together
InviteSlots == {1, 2}

\* A response of a user view: the view and the status
Http(view, status) == <<view, status>>

NoHttp == Http("none", 0)

\* The superuser that createsuperuser made
FirstUser == UserRow("admin", "admin@x.io", TRUE, TRUE)

UsersIdle ==
    /\ users = <<FirstUser>>
    /\ chart_access = << >>
    /\ invites = [slot \in InviteSlots |-> NoInvite]
    /\ http = NoHttp

-----------------------------------------------------------------------------
(* Each part of the program is explored on its own; the others stay idle *)

\* What a call did: nothing yet, returned a value, or raised
NotCalled == [state |-> "not called", value |-> 0]

Returned(value) == [state |-> "returned", value |-> value]

Raised == [state |-> "raised", value |-> 0]

\* << >> is an exception, <<v>> a value
Outcome(r) == IF r = << >> THEN Raised ELSE Returned(r[1])

SortIdle ==
    /\ periods = << >>
    /\ parsed_periods = << >>
    /\ sorted_periods = << >>
    /\ sort_called = FALSE

RateIdle ==
    /\ group = Frame({}, << >>)
    /\ win_rate = NotCalled

EngineIdle ==
    /\ self_df = Frame({}, << >>)
    /\ query = NoQuery
    /\ result = NoResult
    /\ fetched_df = Frame({}, << >>)
    /\ previous = NoResult
    /\ reused = FALSE

-----------------------------------------------------------------------------
(* NotionService.calculate_win_rate.  Rates are in hundredths of a percent:   *)
(* 3000 is 30.0.  << >> stands for the KeyError of df['Status'].              *)

\* The denominator counts every row of the frame
WinRateOverAllRows(df) ==
    IF df.rows = << >> THEN <<0>>
    ELSE IF "Status" \notin df.columns THEN << >>
    ELSE <<RoundHalfEven(CountStatus(df.rows, "winner") * 10000, Len(df.rows))>>

\* The division is made also where no row is decided, and raises
RateOfWithoutZeroGuard(winners, total) ==
    IF total = 0 THEN << >> ELSE <<RoundHalfEven(winners * 10000, total)>>

\* winners / total * 100 rounded to 2 decimals, 0 without a decided row
RateOf(winners, total) ==
    IF total = 0 THEN <<0>> ELSE <<RoundHalfEven(winners * 10000, total)>>

calculate_win_rate(df) ==
    IF IsEmpty(df) THEN <<0>>
    ELSE IF "Status" \notin df.columns THEN << >>
    ELSE RateOf(CountStatus(df.rows, "winner"),
                CountStatus(df.rows, "winner") + CountStatus(df.rows, "loser")
                    + CountStatus(df.rows, "launched"))

-----------------------------------------------------------------------------
(* AdAnalytics: frame operations *)

\* df['Period'] = ...
WithRatePeriod(df, period) ==
    Frame(df.columns \cup {"Period"},
          [i \in 1..Len(df.rows) |->
              ("Period" :> RatePeriod(df.columns, df.rows[i], period)) @@ df.rows[i]])

\* df['Period'] = ... in the ratio queries
WithRatioPeriod(df, period) ==
    Frame(df.columns \cup {"Period"},
          [i \in 1..Len(df.rows) |->
              ("Period" :> RatioPeriod(df.columns, df.rows[i], period)) @@ df.rows[i]])

\* df[df['Launch Date'].notna()]
Dated(df) == Frame(df.columns, SelectSeq(df.rows, LAMBDA r : r["Launch Date"] # NaT))

\* Series == value: a missing value equals nothing
Eq(a, b) == a # NaN /\ b # NaN /\ a = b

\* df[column], and df[column].dropna()
Column(rows, column) == [i \in 1..Len(rows) |-> rows[i][column]]

DropNa(seq) == SelectSeq(seq, LAMBDA v : v # NaN)

\* A set of strings in ascending order: the i-th has i - 1 strings below it
SortStrings(S) ==
    LET below == [x \in S |-> Cardinality({y \in S : StrLess(y, x)})]
    IN  [i \in 1..Cardinality(S) |-> CHOOSE x \in S : below[x] = i - 1]

KnownLabelsSorted == SortStrings(KnownLabels)

\* The strings of keys in ascending order
Ascending(keys) ==
    IF keys \subseteq KnownLabels
    THEN SelectSeq(KnownLabelsSorted, LAMBDA l : l \in keys)
    ELSE SortStrings(keys)

\* The keys of df.groupby('Period'): the distinct values that are not
\* missing, ascending
GroupKeys(rows) == Ascending(Range(DropNa(Column(rows, "Period"))))

\* The rows of one group
GroupRows(rows, key) == SelectSeq(rows, LAMBDA r : Eq(r["Period"], key))

\* The Status is compared as it is written
FilterStatusExact(df, status) ==
    IF status # "" /\ "Status" \in df.columns
    THEN Frame(df.columns, SelectSeq(df.rows, LAMBDA r : Eq(r["Status"], status)))
    ELSE df

\* df[df['Status'].str.lower() == status.lower()], when a status is given
\* and the table has a Status column
FilterStatus(df, status) ==
    IF status # "" /\ "Status" \in df.columns
    THEN Frame(df.columns,
               SelectSeq(df.rows, LAMBDA r : Eq(StrLower(r["Status"]), Lower(status))))
    ELSE df

IndexOf(seq, x) == CHOOSE i \in 1..Len(seq) : seq[i] = x

\* The values of the groups in the order groupby made them
DataInGroupOrder(keys, values, labels) == values

\* [result[p] for p in sorted_periods]
DataInLabelOrder(keys, values, labels) ==
    [i \in 1..Len(labels) |-> values[IndexOf(keys, labels[i])]]

-----------------------------------------------------------------------------
(* AdAnalytics: the queries.  An argument that is not given is "".          *)

EmptySeries == Series(<< >>, << >>)

EmptySliced == Sliced(<< >>, << >>)

\* df[(df['Period'] == period_val) & (df[column] == value)]
Subset(rows, period_val, column, value) ==
    SelectSeq(rows, LAMBDA r : Eq(r["Period"], period_val) /\ Eq(r[column], value))

\* One count for each period that has a row of the value, none for the others
CountDataWithoutZeros(rows, labels, column, value) ==
    LET present == SelectSeq(labels, LAMBDA p : Subset(rows, p, column, value) # << >>)
    IN  [i \in 1..Len(present) |-> Len(Subset(rows, present[i], column, value))]

\* data of one dataset of a ratio query: one count for each period
CountData(rows, labels, column, value) ==
    [i \in 1..Len(labels) |-> Len(Subset(rows, labels[i], column, value))]

\* data of one dataset of a win-rate query: one rate for each period
RateData(dfp, labels, column, value) ==
    [i \in 1..Len(labels) |->
        calculate_win_rate(Frame(dfp.columns, Subset(dfp.rows, labels[i], column, value)))]

Dataset(label, data) == [label |-> label, data |-> data]

\* labels: the sorted keys; data: [result[p] for p in sorted_periods]
SeriesOf(keys, values, labels) == Series(labels, DataInLabelOrder(keys, values, labels))

GroupedSeries(keys, values) == SeriesOf(keys, values, _sort_periods_chronologically(keys))

\* groupby('Period').apply(calculate_win_rate)
GroupRates(dfp, keys) ==
    [i \in 1..Len(keys) |->
        calculate_win_rate(Frame(dfp.columns, GroupRows(dfp.rows, keys[i])))]

RateSeries(keys, rates) ==
    IF \E i \in 1..Len(keys) : rates[i] = << >> THEN KeyError
    ELSE GroupedSeries(keys, [i \in 1..Len(keys) |-> rates[i][1]])

RatesByKey(dfp, keys) == RateSeries(keys, GroupRates(dfp, keys))

RateByPeriod(dfp) == RatesByKey(dfp, GroupKeys(dfp.rows))

get_win_rate_by_period(df, period) ==
    IF "Launch Date" \notin df.columns \/ IsEmpty(df) THEN EmptySeries
    ELSE RateByPeriod(WithRatePeriod(Dated(df), period))

\* get_win_rate_by_strategist, get_win_rate_by_product and
\* get_win_rate_by_ad_type differ in the column they slice by
RateDatasets(labels, values, rates) ==
    IF \E j \in 1..Len(values) : \E i \in 1..Len(labels) : rates[j][i] = << >>
    THEN KeyError
    ELSE Sliced(labels,
                [j \in 1..Len(values) |->
                    Dataset(values[j], [i \in 1..Len(labels) |-> rates[j][i][1]])])

RateTable(dfp, labels, values, column) ==
    RateDatasets(labels, values,
                 [j \in 1..Len(values) |-> RateData(dfp, labels, column, values[j])])

RateSlices(dfp, column) ==
    RateTable(dfp, _sort_periods_chronologically(Unique(Column(dfp.rows, "Period"))),
              Unique(DropNa(Column(dfp.rows, column))), column)

WinRateByDimension(df, period, column) ==
    IF "Launch Date" \notin df.columns \/ column \notin df.columns \/ IsEmpty(df)
    THEN EmptySliced
    ELSE RateSlices(WithRatePeriod(Dated(df), period), column)

get_win_rate_by_strategist(df, period) == WinRateByDimension(df, period, "Strategist")

get_win_rate_by_product(df, period) == WinRateByDimension(df, period, "Product")

get_win_rate_by_ad_type(df, period) == WinRateByDimension(df, period, "Type")

\* get_ad_type_ratio and get_format_ratio differ in the column they slice by
CountDatasets(rows, labels, values, column) ==
    Sliced(labels,
           [j \in 1..Len(values) |->
               Dataset(values[j], CountData(rows, labels, column, values[j]))])

CountSlices(dfp, column) ==
    CountDatasets(dfp.rows, _sort_periods_chronologically(Unique(Column(dfp.rows, "Period"))),
                  Unique(DropNa(Column(dfp.rows, column))), column)

RatioByDimension(df, period, status, column) ==
    IF "Launch Date" \notin df.columns \/ column \notin df.columns \/ IsEmpty(df)
    THEN EmptySliced
    ELSE CountSlices(WithRatioPeriod(FilterStatus(Dated(df), status), period), column)

get_ad_type_ratio(df, period, status) == RatioByDimension(df, period, status, "Type")

get_format_ratio(df, period, status) == RatioByDimension(df, period, status, "Format")

\* Only the missing values are recoded, the empty strings stay
FillMissingProduct(df) ==
    Frame(df.columns,
          [i \in 1..Len(df.rows) |->
              [df.rows[i] EXCEPT !["Product"] = IF @ = NaN THEN "Unknown" ELSE @]])

\* df['Product'].fillna('Unknown').replace('', 'Unknown')
FillProduct(df) ==
    Frame(df.columns,
          [i \in 1..Len(df.rows) |->
              [df.rows[i] EXCEPT !["Product"] = IF @ = NaN \/ @ = "" THEN "Unknown" ELSE @]])

ProductDatasets(rows, labels, products) ==
    Sliced(labels,
           [j \in 1..Len(products) |->
               Dataset(IF products[j] = "" THEN "Unknown" ELSE products[j],
                       CountData(rows, labels, "Product", products[j]))])

ProductSlices(dfp) ==
    ProductDatasets(dfp.rows,
                    _sort_periods_chronologically(Unique(DropNa(Column(dfp.rows, "Period")))),
                    Unique(DropNa(Column(dfp.rows, "Product"))))

get_product_ratio(df, period, status) ==
    IF "Launch Date" \notin df.columns \/ "Product" \notin df.columns \/ IsEmpty(df)
    THEN EmptySliced
    ELSE ProductSlices(WithRatioPeriod(FillProduct(FilterStatus(Dated(df), status)), period))

\* The sum of a column of numbers
RECURSIVE Sum(_)
Sum(values) == IF values = << >> THEN 0 ELSE values[1][1] + Sum(Tail(values))

\* groupby('Period')[column].mean().round(2), in hundredths; the values of
\* the column are divided by unit first: mean().round(2) of the values divided by unit, in hundredths
MeanOf(values, unit) == RoundHalfEven(Sum(values) * 100, Len(values) * unit)

GroupMeans(rows, keys, column, unit) ==
    [i \in 1..Len(keys) |-> MeanOf(Column(GroupRows(rows, keys[i]), column), unit)]

MeansByKey(rows, keys, column, unit) ==
    GroupedSeries(keys, GroupMeans(rows, keys, column, unit))

MeanByPeriod(dfp, column, unit) == MeansByKey(dfp.rows, GroupKeys(dfp.rows), column, unit)

\* The filter is not applied
FilterByNothing(rows, column, value) == rows

\* df[df[column] == value] when the filter is given
FilterBy(rows, column, value) ==
    IF value = "" THEN rows ELSE SelectSeq(rows, LAMBDA r : Eq(r[column], value))

\* The rows of the strategist, by period
ProductionSeries(columns, chosen, strategist, period) ==
    IF strategist # "" /\ chosen = << >> THEN EmptySeries
    ELSE MeanByPeriod(WithRatePeriod(Frame(columns, chosen), period),
                      "Ad time to ready (days)", 1)

\* valid: the dated rows with a positive production time
ProductionOfValid(df, valid, strategist, period) ==
    IF valid = << >> THEN EmptySeries
    ELSE IF strategist # "" /\ "Strategist" \notin df.columns THEN KeyError
    ELSE ProductionSeries(df.columns, FilterBy(valid, "Strategist", strategist),
                          strategist, period)

\* Rows with a zero or negative production time are kept
ProductionTimeOfAllValues(df, strategist, period) ==
    IF "Ad time to ready (days)" \notin df.columns \/ "Launch Date" \notin df.columns
    THEN EmptySeries
    ELSE ProductionOfValid(df,
                           SelectSeq(Dated(df).rows,
                                     LAMBDA r : r["Ad time to ready (days)"] # NaT),
                           strategist, period)

get_avg_production_time(df, strategist, period) ==
    IF "Ad time to ready (days)" \notin df.columns \/ "Launch Date" \notin df.columns
    THEN EmptySeries
    ELSE ProductionOfValid(df,
                           SelectSeq(Dated(df).rows,
                                     LAMBDA r : /\ r["Ad time to ready (days)"] # NaT
                                                /\ r["Ad time to ready (days)"][1] > 0),
                           strategist, period)

get_avg_editing_time(df, editor, period) ==
    IF "Editing Duration (minutes)" \notin df.columns \/ "Launch Date" \notin df.columns
    THEN EmptySeries
    ELSE IF editor # "" /\ "Editor/Designer" \notin df.columns THEN KeyError
    ELSE MeanByPeriod(
             WithRatePeriod(
                 Frame(df.columns,
                       FilterBy(SelectSeq(Dated(df).rows,
                                          LAMBDA r : r["Editing Duration (minutes)"] # NaT),
                                "Editor/Designer", editor)),
                 period),
             "Editing Duration (minutes)", 60)

\* Each group counts as one, whatever rows it has
GroupSizesOfOne(rows, keys) == [i \in 1..Len(keys) |-> 1]

\* groupby('Period').size()
GroupSizes(rows, keys) == [i \in 1..Len(keys) |-> Len(GroupRows(rows, keys[i]))]

SizesByKey(rows, keys) == GroupedSeries(keys, GroupSizes(rows, keys))

SizeByPeriod(dfp) == SizesByKey(dfp.rows, GroupKeys(dfp.rows))

get_creatives_volume(df, period, strategist, status) ==
    IF "Launch Date" \notin df.columns \/ IsEmpty(df) THEN EmptySeries
    ELSE IF strategist # "" /\ "Strategist" \notin df.columns THEN KeyError
    ELSE SizeByPeriod(
             WithRatePeriod(
                 Frame(df.columns,
                       FilterBy(FilterStatus(Dated(df), status).rows, "Strategist", strategist)),
                 period))

\* The frame a query has built from its copy of the table when it returns
\* or raises: the rows it kept, with the columns it assigned
Working(df, q) ==
    IF "Launch Date" \notin df.columns THEN df
    ELSE CASE q.name = "get_win_rate_by_period" ->
                  IF IsEmpty(df) THEN df ELSE WithRatePeriod(Dated(df), q.period)
           [] q.name = "get_win_rate_by_strategist" ->
                  IF "Strategist" \notin df.columns \/ IsEmpty(df) THEN df
                  ELSE WithRatePeriod(Dated(df), q.period)
           [] q.name = "get_win_rate_by_product" ->
                  IF "Product" \notin df.columns \/ IsEmpty(df) THEN df
                  ELSE WithRatePeriod(Dated(df), q.period)
           [] q.name = "get_win_rate_by_ad_type" ->
                  IF "Type" \notin df.columns \/ IsEmpty(df) THEN df
                  ELSE WithRatePeriod(Dated(df), q.period)
           [] q.name = "get_ad_type_ratio" ->
                  IF "Type" \notin df.columns \/ IsEmpty(df) THEN df
                  ELSE WithRatioPeriod(FilterStatus(Dated(df), q.status), q.period)
           [] q.name = "get_format_ratio" ->
                  IF "Format" \notin df.columns \/ IsEmpty(df) THEN df
                  ELSE WithRatioPeriod(FilterStatus(Dated(df), q.status), q.period)
           [] q.name = "get_product_ratio" ->
                  IF "Product" \notin df.columns \/ IsEmpty(df) THEN df
                  ELSE WithRatioPeriod(FillProduct(FilterStatus(Dated(df), q.status)), q.period)
           [] q.name = "get_avg_production_time" ->
                  IF "Ad time to ready (days)" \notin df.columns THEN df
                  ELSE IF q.strategist # "" /\ "Strategist" \notin df.columns THEN Dated(df)
                  ELSE WithRatePeriod(
                           Frame(df.columns,
                                 FilterBy(SelectSeq(Dated(df).rows,
                                                    LAMBDA r : /\ r["Ad time to ready (days)"] # NaT
                                                               /\ r["Ad time to ready (days)"][1] > 0),
                                          "Strategist", q.strategist)),
                           q.period)
           [] q.name = "get_avg_editing_time" ->
                  IF "Editing Duration (minutes)" \notin df.columns THEN df
                  ELSE IF q.editor # "" /\ "Editor/Designer" \notin df.columns THEN Dated(df)
                  ELSE WithRatePeriod(
                           Frame(df.columns,
                                 FilterBy(SelectSeq(Dated(df).rows,
                                                    LAMBDA r : r["Editing Duration (minutes)"] # NaT),
                                          "Editor/Designer", q.editor)),
                           q.period)
           [] OTHER ->
                  IF IsEmpty(df) THEN df
                  ELSE IF q.strategist # "" /\ "Strategist" \notin df.columns THEN Dated(df)
                  ELSE WithRatePeriod(
                           Frame(df.columns,
                                 FilterBy(FilterStatus(Dated(df), q.status).rows,
                                          "Strategist", q.strategist)),
                           q.period)

\* The queries work on the table itself and leave in it what they built
TableShared(table, working) == working

\* self.df after a query that worked on df = self.df.copy(): what the query
\* assigns to df and to its columns does not reach the instance's table
TableAfter(table, working) == table

\* The query q on the table df
Answer(df, q) ==
    CASE q.name = "get_win_rate_by_period" -> get_win_rate_by_period(df, q.period)
      [] q.name = "get_win_rate_by_strategist" -> get_win_rate_by_strategist(df, q.period)
      [] q.name = "get_win_rate_by_product" -> get_win_rate_by_product(df, q.period)
      [] q.name = "get_win_rate_by_ad_type" -> get_win_rate_by_ad_type(df, q.period)
      [] q.name = "get_ad_type_ratio" -> get_ad_type_ratio(df, q.period, q.status)
      [] q.name = "get_product_ratio" -> get_product_ratio(df, q.period, q.status)
      [] q.name = "get_format_ratio" -> get_format_ratio(df, q.period, q.status)
      [] q.name = "get_avg_production_time" ->
             get_avg_production_time(df, q.strategist, q.period)
      [] q.name = "get_avg_editing_time" -> get_avg_editing_time(df, q.editor, q.period)
      [] q.name = "get_creatives_volume" ->
             get_creatives_volume(df, q.period, q.strategist, q.status)
      [] OTHER -> NoResult

-----------------------------------------------------------------------------
(* The metric on its own: any frame of Status values, then one call *)

StatusValues ==
    {"Winner", "winner", "WINNER", "Loser", "Launched", "Pending", "", NaN}

StatusRow(status) == [c \in {"Status"} |-> status]

\* The example of the specification: 3 Winner, 2 Loser, 5 Launched, 1 Pending
ExampleGroup ==
    [i \in 1..11 |-> StatusRow(IF i <= 3 THEN "Winner"
                               ELSE IF i <= 5 THEN "Loser"
                               ELSE IF i <= 10 THEN "Launched" ELSE "Pending")]

StatusFrames ==
    {Frame({"Status"}, rows) :
        rows \in {ExampleGroup}
                 \cup UNION {[1..n -> {StatusRow(v) : v \in StatusValues}] :
                                n \in 0..MaxGroupRows}}

InitRate ==
    /\ group \in StatusFrames
    /\ win_rate = NotCalled
    /\ SortIdle
    /\ EngineIdle
    /\ AccessIdle
    /\ StreamIdle
    /\ UsersIdle

CalculateWinRate ==
    /\ win_rate = NotCalled
    /\ win_rate' = Outcome(calculate_win_rate(group))
    /\ UNCHANGED <<group, sortVars, engineVars, accessVars, streamVars, userVars>>

NextRate == CalculateWinRate

SpecRate == InitRate /\ [][NextRate]_vars

-----------------------------------------------------------------------------
(* The normalizer on its own: any list of labels, then one call *)

LabelLists == UNION {[1..n -> SortLabels] : n \in 0..MaxLabels}

InitSort ==
    /\ periods \in LabelLists
    /\ parsed_periods = << >>
    /\ sorted_periods = << >>
    /\ sort_called = FALSE
    /\ RateIdle
    /\ EngineIdle
    /\ AccessIdle
    /\ StreamIdle
    /\ UsersIdle

SortPeriods ==
    /\ ~sort_called
    /\ parsed_periods' = SortedPairs(periods)
    /\ sorted_periods' = _sort_periods_chronologically(periods)
    /\ sort_called' = TRUE
    /\ UNCHANGED <<periods, rateVars, engineVars, accessVars, streamVars, userVars>>

NextSort == SortPeriods

SpecSort == InitSort /\ [][NextSort]_vars

-----------------------------------------------------------------------------
(* The queries on their own: any table, then one query with any arguments *)

\* The rows of a table that has only some of the columns
Restrict(row, columns) == [c \in columns |-> row[c]]

\* Tables of at most n rows with the given columns; a table without columns
\* has no rows
Tables(columns, n) ==
    IF columns = {} THEN {Frame({}, << >>)}
    ELSE {Frame(columns, rows) :
             rows \in UNION {[1..k -> {Restrict(row, columns) : row \in EngineRows}] :
                                k \in 0..n}}

\* Every column, all but one column, or none
ColumnSets == {AllColumns, {}} \cup {AllColumns \ {c} : c \in AllColumns}

InitEngine ==
    /\ self_df \in Tables(AllColumns, MaxRows)
    /\ query = NoQuery
    /\ result = NoResult
    /\ fetched_df = self_df
    /\ previous = NoResult
    /\ reused = FALSE
    /\ SortIdle
    /\ RateIdle
    /\ AccessIdle
    /\ StreamIdle
    /\ UsersIdle

InitColumns ==
    /\ self_df \in UNION {Tables(columns, MaxColumnRows) : columns \in ColumnSets}
    /\ query = NoQuery
    /\ result = NoResult
    /\ fetched_df = self_df
    /\ previous = NoResult
    /\ reused = FALSE
    /\ SortIdle
    /\ RateIdle
    /\ AccessIdle
    /\ StreamIdle
    /\ UsersIdle

\* The rows of the tables that are queried more than once: those of
\* February, with a winner, a loser, a row without Product and an undated row
RepeatRows == {row \in EngineRows : row["Launch Month"] = "Feb 2024"}

RepeatTables ==
    {Frame(AllColumns, rows) :
        rows \in UNION {[1..k -> RepeatRows] : k \in 0..MaxRepeatRows}}

\* An instance that is kept and queried any number of times
InitRepeat ==
    /\ self_df \in RepeatTables
    /\ query = NoQuery
    /\ result = NoResult
    /\ fetched_df = self_df
    /\ previous = NoResult
    /\ reused = TRUE
    /\ SortIdle
    /\ RateIdle
    /\ AccessIdle
    /\ StreamIdle
    /\ UsersIdle

\* A call of the query q, which gives the answer
Call(q, answer) ==
    /\ reused \/ query.name = "none"
    /\ query' = q
    /\ result' = answer
    /\ self_df' = TableAfter(self_df, Working(self_df, q))
    /\ previous' = IF q = query THEN result ELSE NoResult
    /\ UNCHANGED <<fetched_df, reused, sortVars, rateVars, accessVars, streamVars, userVars>>

GetWinRateByPeriod ==
    \E period \in PeriodArgs : Call(Query("get_win_rate_by_period", period, "", "", ""),
             get_win_rate_by_period(self_df, period))

GetWinRateByStrategist ==
    \E period \in PeriodArgs : Call(Query("get_win_rate_by_strategist", period, "", "", ""),
             get_win_rate_by_strategist(self_df, period))

GetWinRateByProduct ==
    \E period \in PeriodArgs : Call(Query("get_win_rate_by_product", period, "", "", ""),
             get_win_rate_by_product(self_df, period))

GetWinRateByAdType ==
    \E period \in PeriodArgs : Call(Query("get_win_rate_by_ad_type", period, "", "", ""),
             get_win_rate_by_ad_type(self_df, period))

GetAdTypeRatio ==
    \E period \in PeriodArgs, status \in StatusArgs :
        Call(Query("get_ad_type_ratio", period, "", "", status),
             get_ad_type_ratio(self_df, period, status))

GetProductRatio ==
    \E period \in PeriodArgs, status \in StatusArgs :
        Call(Query("get_product_ratio", period, "", "", status),
             get_product_ratio(self_df, period, status))

GetFormatRatio ==
    \E period \in PeriodArgs, status \in StatusArgs :
        Call(Query("get_format_ratio", period, "", "", status),
             get_format_ratio(self_df, period, status))

GetAvgProductionTime ==
    \E period \in PeriodArgs, strategist \in StrategistArgs :
        Call(Query("get_avg_production_time", period, strategist, "", ""),
             get_avg_production_time(self_df, strategist, period))

GetAvgEditingTime ==
    \E period \in PeriodArgs, editor \in EditorArgs :
        Call(Query("get_avg_editing_time", period, "", editor, ""),
             get_avg_editing_time(self_df, editor, period))

GetCreativesVolume ==
    \E period \in PeriodArgs, strategist \in StrategistArgs, status \in StatusArgs :
        Call(Query("get_creatives_volume", period, strategist, "", status),
             get_creatives_volume(self_df, period, strategist, status))

NextEngine ==
    \/ GetWinRateByPeriod
    \/ GetWinRateByStrategist
    \/ GetWinRateByProduct
    \/ GetWinRateByAdType
    \/ GetAdTypeRatio
    \/ GetProductRatio
    \/ GetFormatRatio
    \/ GetAvgProductionTime
    \/ GetAvgEditingTime
    \/ GetCreativesVolume

SpecEngine == InitEngine /\ [][NextEngine]_vars

SpecColumns == InitColumns /\ [][NextEngine]_vars

SpecRepeat == InitRepeat /\ [][NextEngine]_vars

-----------------------------------------------------------------------------
(* The endpoints on their own: requests by any user, in any order *)

InitAccess ==
    /\ charts \in [Users \ {"admin"} -> ChartLists]
    /\ request = NoRequest
    /\ response = NoResponse
    /\ ws_user = "none"
    /\ is_streaming = FALSE
    /\ SortIdle
    /\ RateIdle
    /\ EngineIdle
    /\ StreamIdle
    /\ UsersIdle

\* DashboardView.get: the page with the filters and the allowed charts
DashboardView_get ==
    \E user \in Requesters :
        /\ request' = Request(user, "DashboardView", "")
        /\ response' =
               IF ~is_authenticated(user) THEN RedirectToLogin
               ELSE IF is_superuser(user) THEN Response("dashboard", "", CHART_CHOICES)
               ELSE Response("dashboard", "", charts[user])
        /\ UNCHANGED <<charts, ws_user, is_streaming, sortVars, rateVars, engineVars, streamVars, userVars>>

\* get of a chart API view: LoginRequiredMixin, then the query; an
\* exception of the query is answered with status 500
ChartAPI_get(view, chart) ==
    \E user \in Requesters, raised \in BOOLEAN :
        /\ request' = Request(user, view, chart)
        /\ response' =
               IF ~is_authenticated(user) THEN RedirectToLogin
               ELSE IF raised THEN Response("error", "", {})
               ELSE Response("chart data", chart, {})
        /\ UNCHANGED <<charts, ws_user, is_streaming, sortVars, rateVars, engineVars, streamVars, userVars>>

WinRateChartAPI_get == ChartAPI_get("WinRateChartAPI", "win_rate")

WinRateByStrategistAPI_get == ChartAPI_get("WinRateByStrategistAPI", "win_rate_strategist")

WinRateByProductAPI_get == ChartAPI_get("WinRateByProductAPI", "win_rate_product")

WinRateByAdTypeAPI_get == ChartAPI_get("WinRateByAdTypeAPI", "win_rate_adtype")

AdTypeRatioAPI_get == ChartAPI_get("AdTypeRatioAPI", "adtype_ratio")

ProductRatioAPI_get == ChartAPI_get("ProductRatioAPI", "product_ratio")

FormatRatioAPI_get == ChartAPI_get("FormatRatioAPI", "format_ratio")

AvgProductionTimeAPI_get == ChartAPI_get("AvgProductionTimeAPI", "production_time")

AvgEditingTimeAPI_get == ChartAPI_get("AvgEditingTimeAPI", "editing_time")

CreativesVolumeAPI_get == ChartAPI_get("CreativesVolumeAPI", "creatives_volume")

\* ManageUserAccessView.post: a superuser replaces the list of a user
ManageUserAccessView_post ==
    \E user \in Requesters, managed_user \in Users \ {"admin"}, list \in ChartLists :
        /\ request' = Request(user, "ManageUserAccessView", "")
        /\ response' =
               IF ~is_authenticated(user) THEN RedirectToLogin
               ELSE IF ~is_superuser(user) THEN Response("forbidden", "", {})
               ELSE Response("redirect to manage_users_list", "", {})
        /\ charts' = IF is_authenticated(user) /\ is_superuser(user)
                     THEN [charts EXCEPT ![managed_user] = list]
                     ELSE charts
        /\ UNCHANGED <<ws_user, is_streaming, sortVars, rateVars, engineVars, streamVars, userVars>>

\* ChartStreamConsumer.connect: closed with 4001 without a session
connect ==
    \E user \in Requesters :
        /\ ws_user = "none"
        /\ request' = Request(user, "connect", "")
        /\ response' = IF is_authenticated(user) THEN Response("connection", "", {})
                       ELSE Response("close 4001", "", {})
        /\ ws_user' = IF is_authenticated(user) THEN user ELSE "none"
        /\ UNCHANGED <<charts, is_streaming, sortVars, rateVars, engineVars, streamVars, userVars>>

\* ChartStreamConsumer.disconnect
disconnect ==
    /\ ws_user # "none"
    /\ request' = Request(ws_user, "disconnect", "")
    /\ response' = NoResponse
    /\ ws_user' = "none"
    /\ is_streaming' = FALSE
    /\ UNCHANGED <<charts, sortVars, rateVars, engineVars, streamVars, userVars>>

\* ChartStreamConsumer.get_chart_by_type, sent by send_chart_data: the
\* query of a known chart type, the empty series for any other type; an
\* exception of the query is answered with an error message
ChartMessage(chart_type, raised) ==
    IF chart_type \notin CHART_CHOICES THEN Response("empty series", "", {})
    ELSE IF raised THEN Response("error", "", {})
    ELSE Response("chart data", chart_type, {})

\* ChartStreamConsumer.receive with start_stream, stop_stream or get_chart
receive ==
    \E command \in {"start_stream", "stop_stream", "get_chart"},
       chart_type \in CHART_CHOICES \cup {"other"}, raised \in BOOLEAN :
        /\ ws_user # "none"
        /\ request' = Request(ws_user, command,
                              IF command = "get_chart" THEN chart_type ELSE "")
        /\ response' =
               CASE command = "start_stream" ->
                        IF is_streaming THEN NoResponse
                        ELSE Response("stream_status started", "", {})
                 [] command = "stop_stream" -> Response("stream_status stopped", "", {})
                 [] OTHER -> ChartMessage(chart_type, raised)
        /\ is_streaming' = CASE command = "start_stream" -> TRUE
                             [] command = "stop_stream" -> FALSE
                             [] OTHER -> is_streaming
        /\ UNCHANGED <<charts, ws_user, sortVars, rateVars, engineVars, streamVars, userVars>>

\* ChartStreamConsumer.stream_data: one round of send_all_charts, which
\* sends an update without charts
stream_data ==
    /\ is_streaming
    /\ request' = Request(ws_user, "stream_data", "")
    /\ response' = Response("charts_update", "", {})
    /\ UNCHANGED <<charts, ws_user, is_streaming, sortVars, rateVars, engineVars, streamVars, userVars>>

NextAccess ==
    \/ DashboardView_get
    \/ WinRateChartAPI_get
    \/ WinRateByStrategistAPI_get
    \/ WinRateByProductAPI_get
    \/ WinRateByAdTypeAPI_get
    \/ AdTypeRatioAPI_get
    \/ ProductRatioAPI_get
    \/ FormatRatioAPI_get
    \/ AvgProductionTimeAPI_get
    \/ AvgEditingTimeAPI_get
    \/ CreativesVolumeAPI_get
    \/ ManageUserAccessView_post
    \/ connect
    \/ disconnect
    \/ receive
    \/ stream_data

SpecAccess == InitAccess /\ [][NextAccess]_vars

-----------------------------------------------------------------------------
(* ChartStreamConsumer with its streaming task.  The consumer handles one     *)
(* message at a time; the task runs wherever a handler or the task awaits.    *)

\* Every scope with a user is let in
MayConnectWithAnyUser(user) == user # NoUser

\* connect: `not user or not user.is_authenticated` is false
MayConnect(user) == user # NoUser /\ is_authenticated(user)

\* start_streaming starts a stream whatever is_streaming says
StartNeverIgnored(streaming) == FALSE

\* start_streaming: `if self.is_streaming: return`
StartIgnored(streaming) == streaming

\* The tasks are left to run
CancelNothing(states, task) == states

\* `if self.streaming_task: self.streaming_task.cancel()`: a task that is done
\* stays as it is, any other gets CancelledError where it awaits
Cancel(states, task) ==
    IF task = 0 \/ states[task] \in {"cancelled", "finished"} THEN states
    ELSE [states EXCEPT ![task] = "cancelling"]

\* A task on which cancel() was not called
NotCancelled(state) == state \notin {"cancelling", "cancelled"}

InitStream ==
    /\ scope_user \in Requesters \cup {NoUser}
    /\ connection = "new"
    /\ handler = "idle"
    /\ streaming_task = 0
    /\ tasks = << >>
    /\ events = << >>
    /\ AccessIdle
    /\ UsersIdle
    /\ SortIdle
    /\ RateIdle
    /\ EngineIdle

\* connect up to its first await after the check: close(code=4001), or
\* accept() and then the send of the connection message
ChartStreamConsumer_connect ==
    /\ connection = "new"
    /\ handler = "idle"
    /\ connection' = IF MayConnect(scope_user) THEN "open" ELSE "rejected"
    /\ handler' = IF MayConnect(scope_user) THEN "connect" ELSE "idle"
    /\ events' = IF MayConnect(scope_user) THEN events ELSE Append(events, "close 4001")
    /\ UNCHANGED <<scope_user, streaming_task, tasks, accessVars, userVars,
                   sortVars, rateVars, engineVars>>

\* The send of a handler returns or raises; an exception that leaves the
\* handler ends the consumer
connect_send ==
    \E delivered \in BOOLEAN :
        /\ handler = "connect"
        /\ Len(events) < MaxEvents
        /\ handler' = "idle"
        /\ events' = IF delivered THEN Append(events, "connection") ELSE events
        /\ connection' = IF delivered THEN connection ELSE "closed"
        /\ UNCHANGED <<scope_user, streaming_task, tasks, accessVars, userVars,
                       sortVars, rateVars, engineVars>>

\* receive with start_stream, up to the send in start_streaming
receive_start_stream ==
    /\ connection = "open"
    /\ handler = "idle"
    /\ Len(tasks) < MaxTasks
    /\ request' = Request(scope_user, "start_stream", "")
    /\ is_streaming' = TRUE
    /\ handler' = IF StartIgnored(is_streaming) THEN "idle" ELSE "start_streaming"
    /\ UNCHANGED <<charts, response, ws_user, scope_user, connection, streaming_task,
                   tasks, events, userVars, sortVars, rateVars, engineVars>>

\* start_streaming after its send: create_task where the send returned; where
\* it raised, the except of receive sends an error message
start_streaming_send ==
    \E delivered \in BOOLEAN, error_delivered \in BOOLEAN :
        /\ handler = "start_streaming"
        /\ Len(events) < MaxEvents
        /\ handler' = "idle"
        /\ events' = IF delivered THEN Append(events, "started")
                     ELSE IF error_delivered THEN Append(events, "error")
                     ELSE events
        /\ tasks' = IF delivered THEN Append(tasks, "waiting") ELSE tasks
        /\ streaming_task' = IF delivered THEN Len(tasks) + 1 ELSE streaming_task
        /\ connection' = IF delivered \/ error_delivered THEN connection ELSE "closed"
        /\ UNCHANGED <<scope_user, accessVars, userVars, sortVars, rateVars, engineVars>>

\* receive with stop_stream, up to the send in stop_streaming
receive_stop_stream ==
    /\ connection = "open"
    /\ handler = "idle"
    /\ request' = Request(scope_user, "stop_stream", "")
    /\ is_streaming' = FALSE
    /\ tasks' = Cancel(tasks, streaming_task)
    /\ streaming_task' = 0
    /\ handler' = "stop_streaming"
    /\ UNCHANGED <<charts, response, ws_user, scope_user, connection, events,
                   userVars, sortVars, rateVars, engineVars>>

\* stop_streaming after its send
stop_streaming_send ==
    \E delivered \in BOOLEAN, error_delivered \in BOOLEAN :
        /\ handler = "stop_streaming"
        /\ Len(events) < MaxEvents
        /\ handler' = "idle"
        /\ events' = IF delivered THEN Append(events, "stopped")
                     ELSE IF error_delivered THEN Append(events, "error")
                     ELSE events
        /\ connection' = IF delivered \/ error_delivered THEN connection ELSE "closed"
        /\ UNCHANGED <<scope_user, streaming_task, tasks, accessVars, userVars,
                       sortVars, rateVars, engineVars>>

\* receive with get_chart: send_chart_data sends the chart or an error
receive_get_chart ==
    \E raised \in BOOLEAN :
        /\ connection = "open"
        /\ handler = "idle"
        /\ Len(events) < MaxEvents
        /\ request' = Request(scope_user, "get_chart", "")
        /\ events' = Append(events, IF raised THEN "error" ELSE "chart_data")
        /\ UNCHANGED <<charts, response, ws_user, is_streaming, scope_user, connection,
                       handler, streaming_task, tasks, userVars, sortVars, rateVars,
                       engineVars>>

\* disconnect: is_streaming = False, then cancel() on the task there is
ChartStreamConsumer_disconnect ==
    /\ connection = "open"
    /\ handler = "idle"
    /\ Len(events) < MaxEvents
    /\ request' = Request(scope_user, "disconnect", "")
    /\ is_streaming' = FALSE
    /\ tasks' = Cancel(tasks, streaming_task)
    /\ connection' = "closed"
    /\ events' = Append(events, "disconnect")
    /\ UNCHANGED <<charts, response, ws_user, scope_user, handler, streaming_task,
                   userVars, sortVars, rateVars, engineVars>>

\* stream_data at `while self.is_streaming`, on its first run and after each
\* sleep: into send_all_charts, which awaits get_analytics, or out of the loop
stream_data_loop ==
    \E task \in 1..Len(tasks) :
        /\ tasks[task] = "waiting"
        /\ tasks' = [tasks EXCEPT ![task] = IF is_streaming THEN "fetching" ELSE "finished"]
        /\ UNCHANGED <<scope_user, connection, handler, streaming_task, events,
                       accessVars, userVars, sortVars, rateVars, engineVars>>

\* send_all_charts after get_analytics: the update is sent, or an exception
\* is printed; then stream_data sleeps
send_all_charts ==
    \E task \in 1..Len(tasks), delivered \in BOOLEAN :
        /\ tasks[task] = "fetching"
        /\ Len(events) < MaxEvents
        /\ events' = IF delivered THEN Append(events, "charts_update") ELSE events
        /\ tasks' = [tasks EXCEPT ![task] = "waiting"]
        /\ UNCHANGED <<scope_user, connection, handler, streaming_task,
                       accessVars, userVars, sortVars, rateVars, engineVars>>

\* CancelledError reaches the task where it awaits: `break`
stream_data_cancelled ==
    \E task \in 1..Len(tasks) :
        /\ tasks[task] = "cancelling"
        /\ tasks' = [tasks EXCEPT ![task] = "cancelled"]
        /\ UNCHANGED <<scope_user, connection, handler, streaming_task, events,
                       accessVars, userVars, sortVars, rateVars, engineVars>>

NextStream ==
    \/ ChartStreamConsumer_connect
    \/ connect_send
    \/ receive_start_stream
    \/ start_streaming_send
    \/ receive_stop_stream
    \/ stop_streaming_send
    \/ receive_get_chart
    \/ ChartStreamConsumer_disconnect
    \/ stream_data_loop
    \/ send_all_charts
    \/ stream_data_cancelled

SpecStream == InitStream /\ [][NextStream]_vars

-----------------------------------------------------------------------------
(* The user views: invitations, which can be under way together, and removal *)

\* The email fields that are posted
InviteEmails == {"", " bob@x.io", "bob@y.io"}

\* The chart_access lists that are posted
InviteCharts == {<< >>, <<"win_rate">>}

\* What send_invite_email does
MailOutcomes == {"sent", "Failed to send email", "other exception"}

\* The sessions: the id of an active user, 0 without a session
Sessions(table) == {0} \cup {id \in 1..Len(table) : table[id][3]}

\* request.user.is_superuser
IsSuperuser(table, id) == id # 0 /\ table[id][4]

\* User.objects.filter(email=email).exists()
EmailExists(table, email) == \E id \in 1..Len(table) : table[id][2] = email

\* User.objects.filter(username=username).exists()
UsernameExists(table, username) == \E id \in 1..Len(table) : table[id][1] = username

\* email.split('@')[0]
BaseUsername(email) == Split(email, "@")[1]

\* The status of an invitation after the user was created
InviteStatus(mail) == IF mail = "other exception" THEN 500 ELSE 200

\* The target is never taken for the requester
IsRequesterNever(requester, user_id) == FALSE

\* `if user.id == request.user.id`
IsRequester(requester, user_id) == user_id = requester

\* user.is_active = False; user.save()
Deactivate(table, user_id) == [table EXCEPT ![user_id][3] = FALSE]

\* The status of RemoveUserAPIView.post
RemoveStatus(table, requester, user_id) ==
    IF requester = 0 THEN 302
    ELSE IF ~IsSuperuser(table, requester) THEN 403
    ELSE IF user_id \notin 1..Len(table) THEN 500
    ELSE IF IsRequester(requester, user_id) THEN 400
    ELSE 200

InitUsers ==
    /\ users \in {<<FirstUser>>, <<FirstUser, UserRow("root", "root@x.io", TRUE, TRUE)>>}
    /\ chart_access = << >>
    /\ invites = [slot \in InviteSlots |-> NoInvite]
    /\ http = NoHttp
    /\ SortIdle
    /\ RateIdle
    /\ EngineIdle
    /\ AccessIdle
    /\ StreamIdle

\* InviteUserView.post up to the check of the email: 403 for a requester who
\* is no superuser, 400 for no email and for an email that a user has
InviteUserView_post ==
    \E slot \in InviteSlots, requester \in Sessions(users), email \in InviteEmails :
        /\ invites[slot] = NoInvite
        /\ IF ~IsSuperuser(users, requester)
           THEN /\ http' = Http("InviteUserView", 403)
                /\ UNCHANGED invites
           ELSE IF Strip(email) = "" \/ EmailExists(users, Strip(email))
           THEN /\ http' = Http("InviteUserView", 400)
                /\ UNCHANGED invites
           ELSE /\ invites' = [invites EXCEPT ![slot] =
                                  Invite("naming", Strip(email),
                                         BaseUsername(Strip(email)), 1)]
                /\ UNCHANGED http
        /\ UNCHANGED <<users, chart_access, streamVars, accessVars, sortVars, rateVars,
                       engineVars>>

\* One turn of `while User.objects.filter(username=username).exists()`
invite_username ==
    \E slot \in InviteSlots :
        /\ invites[slot][1] = "naming"
        /\ invites' = [invites EXCEPT ![slot] =
               IF UsernameExists(users, invites[slot][3])
               THEN Invite("naming", invites[slot][2],
                           BaseUsername(invites[slot][2]) \o IntToStr(invites[slot][4]),
                           invites[slot][4] + 1)
               ELSE Invite("creating", invites[slot][2], invites[slot][3],
                           invites[slot][4])]
        /\ UNCHANGED <<users, chart_access, http, streamVars, accessVars, sortVars,
                       rateVars, engineVars>>

\* create_user, which the unique username can refuse, then the row of
\* UserChartAccess and the email
invite_create_user ==
    \E slot \in InviteSlots, charts_posted \in InviteCharts, mail \in MailOutcomes :
        /\ invites[slot][1] = "creating"
        /\ Len(users) < MaxUsers
        /\ invites' = [invites EXCEPT ![slot] = NoInvite]
        /\ IF UsernameExists(users, invites[slot][3])
           THEN /\ http' = Http("InviteUserView", 500)
                /\ UNCHANGED <<users, chart_access>>
           ELSE /\ users' = Append(users, UserRow(invites[slot][3], invites[slot][2],
                                                  TRUE, FALSE))
                /\ chart_access' = Append(chart_access, <<Len(users) + 1, charts_posted>>)
                /\ http' = Http("InviteUserView", InviteStatus(mail))
        /\ UNCHANGED <<streamVars, accessVars, sortVars, rateVars, engineVars>>

\* RemoveUserAPIView.post for one requester and one id in the URL
RemoveUser(requester, user_id) ==
    /\ http' = Http("RemoveUserAPIView", RemoveStatus(users, requester, user_id))
    /\ users' = IF RemoveStatus(users, requester, user_id) = 200
                THEN Deactivate(users, user_id)
                ELSE users
    /\ UNCHANGED <<chart_access, invites, streamVars, accessVars, sortVars,
                   rateVars, engineVars>>

\* RemoveUserAPIView.post: a superuser removes another user
RemoveUserAPIView_post ==
    \E requester \in Sessions(users), user_id \in 1..(Len(users) + 1) :
        RemoveUser(requester, user_id)

NextUsers ==
    \/ InviteUserView_post
    \/ invite_username
    \/ invite_create_user
    \/ RemoveUserAPIView_post

SpecUsers == InitUsers /\ [][NextUsers]_vars

-----------------------------------------------------------------------------
(* Claims about the normalizer (SpecSort) *)

\* A quarter label as the documentation gives it: 'YYYYQn' or 'YYYY-Qn'
IsQuarterLabel(label) ==
    LET t == Strip(label)
    IN  /\ Len(t) \in {6, 7}
        /\ AllDigits(SubSeq(t, 1, 4))
        /\ SubSeq(t, 5, Len(t) - 1) \in {"Q", "-Q"}
        /\ Char(t, Len(t)) \in {"1", "2", "3", "4"}

\* The first day of the quarter's first month
QuarterInstant(label) ==
    LET t == Strip(label)
    IN  Ordinal(DigitsValue(SubSeq(t, 1, 4), 0),
                (DigitsValue(Char(t, Len(t)), 0) - 1) * 3 + 1, 1)

\* The labels that stand for an instant, and the instant
HasInstant(label) == IsQuarterLabel(label) \/ Parsed(label) # << >>

Instant(label) ==
    IF IsQuarterLabel(label) THEN QuarterInstant(label) ELSE Parsed(label)[1]

\* C5: when every input label is in a supported encoding, the output is
\* ascending by the instant its labels stand for.
C5_SortedByInstant ==
    (sort_called /\ \A i \in 1..Len(periods) : HasInstant(periods[i]))
    => \A i \in 1..(Len(sorted_periods) - 1) :
           Instant(sorted_periods[i]) <= Instant(sorted_periods[i + 1])

\* C6 as stated: every distinct input label appears exactly once in the
\* output, duplicates in the input or not.
C6_EachLabelOnce ==
    sort_called => \A l \in Range(periods) : Count(sorted_periods, l) = 1

\* C6 amended: the output holds every input label as many times as the input
\* does, so exactly once when the input has no duplicates.
C6_EachLabelAsOftenAsGiven ==
    sort_called
    => \A l \in Range(periods) : Count(sorted_periods, l) = Count(periods, l)

C6_Witness ==
    /\ sort_called
    /\ \E l \in Range(periods) : Count(periods, l) = 2 /\ Count(sorted_periods, l) = 2
    /\ \E l \in Range(periods) : Count(periods, l) = 1 /\ Count(sorted_periods, l) = 1

\* C7: a quarter label, with or without '-' before 'Q', gets as its key the
\* first day of the quarter's first month.
C7_QuarterKey ==
    sort_called
    => \A i \in 1..Len(parsed_periods) :
           IsQuarterLabel(parsed_periods[i][1])
           => parsed_periods[i][2] = QuarterInstant(parsed_periods[i][1])

Restricted(seq, a, b) == SelectSeq(seq, LAMBDA l : l \in {a, b})

RuleOf(period_str) ==
    IF Contains(period_str, "Q") THEN "quarter"
    ELSE IF Contains(period_str, "W") \/ Contains(period_str, "w") THEN "week"
    ELSE IF Contains(period_str, "-") /\ Len(period_str) <= 7 THEN "month"
    ELSE "date"

\* What the rule a stripped label is routed to makes of it, << >> for a failure
RuleResult(period_str) ==
    CASE RuleOf(period_str) = "quarter" -> ParseQuarter(period_str)
      [] RuleOf(period_str) = "week" -> ParseWeek(period_str)
      [] RuleOf(period_str) = "month" -> ParseMonth(period_str)
      [] OTHER -> ParseFreeDate(period_str)

\* C23: the key of every label is the instant that the one rule the label is
\* routed to gives it (quarter, then week, then year-month, then month name or
\* free date), and the minimum key where that rule fails, whatever a later
\* rule would make of the label.
C23_OneRulePerLabel ==
    sort_called
    => \A i \in 1..Len(parsed_periods) :
           parsed_periods[i][2]
             = IF RuleResult(Strip(parsed_periods[i][1])) = << >>
               THEN Timestamp_min
               ELSE RuleResult(Strip(parsed_periods[i][1]))[1]

C23_Witness ==
    /\ sort_called
    /\ periods = <<"2024-W02", "2024-Q1", "2023Q4">>
    /\ parsed_periods = <<<<"2024-Q1", Timestamp_min>>,
                          <<"2023Q4", Ordinal(2023, 10, 1)>>,
                          <<"2024-W02", Ordinal(2024, 1, 8)>>>>

\* C24: the output is a permutation of the input: as long as the input, with
\* every label as many times as the input holds it and no other label.
C24_OutputIsPermutation ==
    sort_called
    => /\ Len(sorted_periods) = Len(periods)
       /\ Range(sorted_periods) \subseteq Range(periods)
       /\ \A l \in KnownLabels : Count(sorted_periods, l) = Count(periods, l)

C24_Witness ==
    /\ sort_called
    /\ periods = <<" Feb 2024", "garbage", " Feb 2024">>
    /\ sorted_periods = <<"garbage", " Feb 2024", " Feb 2024">>

-----------------------------------------------------------------------------
(* Claims about the win rate (SpecRate) *)

Winners(rows) ==
    Cardinality({i \in 1..Len(rows) :
        rows[i]["Status"] \in {"Winner", "winner", "WINNER"}})

Decided(rows) ==
    Cardinality({i \in 1..Len(rows) :
        rows[i]["Status"] \in {"Winner", "winner", "WINNER", "Loser", "Launched"}})

\* C2: the result is winners / (winners + losers + launched) * 100 to the
\* nearest hundredth, the counts taken ignoring case; a row with another
\* Status, or none, is in neither count.
C2_WinRateFormula ==
    (win_rate # NotCalled /\ Decided(group.rows) > 0)
    => /\ win_rate.state = "returned"
       /\ 2 * (win_rate.value * Decided(group.rows) - Winners(group.rows) * 10000)
              <= Decided(group.rows)
       /\ 2 * (Winners(group.rows) * 10000 - win_rate.value * Decided(group.rows))
              <= Decided(group.rows)

C2_Witness ==
    /\ group.rows = ExampleGroup
    /\ win_rate = Returned(3000)

-----------------------------------------------------------------------------
(* Claims about the queries (SpecEngine, SpecColumns) *)

SlicedWinRateQueries ==
    {"get_win_rate_by_strategist", "get_win_rate_by_product", "get_win_rate_by_ad_type"}

RatioQueries == {"get_ad_type_ratio", "get_product_ratio", "get_format_ratio"}

SlicedQueries == SlicedWinRateQueries \cup RatioQueries

TimeSeriesQueries ==
    {"get_win_rate_by_period", "get_avg_production_time", "get_avg_editing_time",
     "get_creatives_volume"}

\* C1: in the result of a dimension-sliced query every dataset has exactly
\* one entry for each label, also where a dimension value has no row in
\* some period.
C1_DatasetsAligned ==
    (query.name \in SlicedQueries /\ result.shape = "sliced")
    => \A j \in 1..Len(result.datasets) :
           Len(result.datasets[j].data) = Len(result.labels)

\* A ratio query answered with two periods and a dataset that has no row in
\* one of them
C1_Witness ==
    /\ query.name \in RatioQueries
    /\ Len(result.labels) >= 2
    /\ \E j \in 1..Len(result.datasets) :
           /\ Len(result.datasets[j].data) = Len(result.labels)
           /\ \E i \in 1..Len(result.labels) : result.datasets[j].data[i] = 0

\* The table without the rows whose Launch Date is missing
DropUndated(df) ==
    IF "Launch Date" \in df.columns
    THEN Frame(df.columns, SelectSeq(df.rows, LAMBDA r : r["Launch Date"] # NaT))
    ELSE Frame(df.columns, << >>)

\* C3: the result of every query equals its result on the table without
\* the rows whose Launch Date is missing.
C3_UndatedRowsContributeNothing ==
    query.name # "none" => result = Answer(DropUndated(self_df), query)

\* The columns a query reads, as the documentation lists them: Launch Date,
\* the metric column, the dimension column, Status for the win-rate
\* queries, and the column of a filter that is given
DimensionColumn(q) ==
    CASE q.name = "get_win_rate_by_strategist" -> {"Strategist"}
      [] q.name \in {"get_win_rate_by_product", "get_product_ratio"} -> {"Product"}
      [] q.name \in {"get_win_rate_by_ad_type", "get_ad_type_ratio"} -> {"Type"}
      [] q.name = "get_format_ratio" -> {"Format"}
      [] OTHER -> {}

MetricColumn(q) ==
    CASE q.name \in SlicedWinRateQueries \cup {"get_win_rate_by_period"} -> {"Status"}
      [] q.name = "get_avg_production_time" -> {"Ad time to ready (days)"}
      [] q.name = "get_avg_editing_time" -> {"Editing Duration (minutes)"}
      [] OTHER -> {}

ColumnsRead(q) ==
    {"Launch Date"} \cup MetricColumn(q) \cup DimensionColumn(q)
    \cup (IF q.strategist # "" THEN {"Strategist"} ELSE {})
    \cup (IF q.editor # "" THEN {"Editor/Designer"} ELSE {})

EmptyShape(q) == IF q.name \in SlicedQueries THEN EmptySliced ELSE EmptySeries

\* C4: on an empty table, or a table without a column the query reads,
\* every query returns the empty result shape and does not raise.
C4_EmptyShapeWithoutRaising ==
    (query.name # "none"
     /\ (IsEmpty(self_df) \/ ~(ColumnsRead(query) \subseteq self_df.columns)))
    => result = EmptyShape(query)

\* Whether a row takes part in the answer of the time-series query q
Contributes(row, q) ==
    /\ row["Launch Date"] # NaT
    /\ q.name = "get_avg_production_time"
       => /\ row["Ad time to ready (days)"] # NaT
          /\ row["Ad time to ready (days)"][1] > 0
    /\ q.name = "get_avg_editing_time" => row["Editing Duration (minutes)"] # NaT
    /\ q.strategist # "" => row["Strategist"] # NaN /\ row["Strategist"] = q.strategist
    /\ q.editor # "" => row["Editor/Designer"] # NaN /\ row["Editor/Designer"] = q.editor
    /\ q.status # "" => row["Status"] # NaN /\ Lower(row["Status"]) = Lower(q.status)

\* The rows of the table that take part, with a given period key
RowsOfKey(key) ==
    SelectSeq(self_df.rows,
              LAMBDA r : /\ Contributes(r, query)
                         /\ RatePeriod(self_df.columns, r, query.period) = key)

\* The metric of the query over a group of rows, in hundredths (a count for
\* the volume)
Metric(rows) ==
    CASE query.name = "get_win_rate_by_period" ->
             calculate_win_rate(Frame(self_df.columns, rows))[1]
      [] query.name = "get_avg_production_time" ->
             RoundHalfEven(Sum(Column(rows, "Ad time to ready (days)")) * 100, Len(rows))
      [] query.name = "get_avg_editing_time" ->
             RoundHalfEven(Sum(Column(rows, "Editing Duration (minutes)")) * 100,
                           Len(rows) * 60)
      [] OTHER -> Len(rows)

\* C10: in the result of a time-series query, labels holds each period key
\* that has a contributing row exactly once, data is as long as labels, and
\* data[i] is the metric over exactly the rows whose period key is labels[i].
C10_OneScalarPerPeriodKey ==
    (query.name \in TimeSeriesQueries /\ result.shape = "series")
    => /\ Len(result.data) = Len(result.labels)
       /\ Range(result.labels)
              = {RatePeriod(self_df.columns, self_df.rows[i], query.period) :
                    i \in {k \in 1..Len(self_df.rows) : Contributes(self_df.rows[k], query)}}
       /\ \A i, j \in 1..Len(result.labels) :
              result.labels[i] = result.labels[j] => i = j
       /\ \A i \in 1..Len(result.labels) :
              result.data[i] = Metric(RowsOfKey(result.labels[i]))

\* A time-series answered with two periods whose values differ
C10_Witness ==
    /\ query.name \in TimeSeriesQueries
    /\ result.shape = "series"
    /\ Len(result.labels) = 2
    /\ result.data[1] # result.data[2]

-----------------------------------------------------------------------------
(* Claims about the queries, continued (SpecEngine, SpecColumns) *)

WinRateQueries == SlicedWinRateQueries \cup {"get_win_rate_by_period"}

\* The column a dimension-sliced query slices by
SliceColumn(q) == CHOOSE c \in DimensionColumn(q) : TRUE

\* The dated rows of the table in one (period, dimension value) cell of a
\* win-rate query
CellRows(label, value) ==
    SelectSeq(self_df.rows,
              LAMBDA r : /\ r["Launch Date"] # NaT
                         /\ RatePeriod(self_df.columns, r, query.period) = label
                         /\ r[SliceColumn(query)] # NaN
                         /\ r[SliceColumn(query)] = value)

HasDecidedRow(rows) ==
    \E i \in 1..Len(rows) : Lower(rows[i]["Status"]) \in {"winner", "loser", "launched"}

\* C11: no win-rate query raises; a cell of a dimension-sliced win-rate
\* query, or a group of get_win_rate_by_period, that has no row or no row
\* with Status winner, loser or launched has the value 0.
C11_NoDecidedRowGivesZero ==
    /\ query.name \in WinRateQueries => result.shape \in {"series", "sliced"}
    /\ (query.name \in SlicedWinRateQueries /\ result.shape = "sliced")
       => \A j \in 1..Len(result.datasets) : \A i \in 1..Len(result.labels) :
              ~HasDecidedRow(CellRows(result.labels[i], result.datasets[j].label))
              => result.datasets[j].data[i] = 0
    /\ (query.name = "get_win_rate_by_period" /\ result.shape = "series")
       => \A i \in 1..Len(result.labels) :
              ~HasDecidedRow(RowsOfKey(result.labels[i])) => result.data[i] = 0

\* A sliced win-rate answer with a cell without rows, a cell whose rows are
\* all undecided, and a cell with a rate
C11_Witness ==
    /\ query.name \in SlicedWinRateQueries
    /\ result.shape = "sliced"
    /\ \E j \in 1..Len(result.datasets) : \E i \in 1..Len(result.labels) :
           /\ CellRows(result.labels[i], result.datasets[j].label) = << >>
           /\ result.datasets[j].data[i] = 0
    /\ \E j \in 1..Len(result.datasets) : \E i \in 1..Len(result.labels) :
           /\ CellRows(result.labels[i], result.datasets[j].label) # << >>
           /\ ~HasDecidedRow(CellRows(result.labels[i], result.datasets[j].label))
           /\ result.datasets[j].data[i] = 0

\* Whether a row passes the status filter of the query q
PassesStatus(row, q) ==
    q.status = "" \/ (row["Status"] # NaN /\ Lower(row["Status"]) = Lower(q.status))

\* A dated row that passes the filter and has no Product
IsUnknownProduct(row) ==
    /\ row["Launch Date"] # NaT
    /\ PassesStatus(row, query)
    /\ row["Product"] \in {NaN, "", "Unknown"}

UnknownRows(label) ==
    SelectSeq(self_df.rows,
              LAMBDA r : /\ IsUnknownProduct(r)
                         /\ RatioPeriod(self_df.columns, r, query.period) = label)

\* C12: get_product_ratio has no dataset with an empty label, at most one
\* dataset labelled Unknown, and that dataset counts, in each period, every
\* dated row of the period whose Product is the empty string or missing.
C12_EmptyProductIsUnknown ==
    query.name = "get_product_ratio"
    => /\ result.shape = "sliced"
       /\ \A j \in 1..Len(result.datasets) : result.datasets[j].label \notin {"", NaN}
       /\ \A j, k \in 1..Len(result.datasets) :
              (result.datasets[j].label = "Unknown" /\ result.datasets[k].label = "Unknown")
              => j = k
       /\ (\E i \in 1..Len(self_df.rows) : IsUnknownProduct(self_df.rows[i]))
          => \E j \in 1..Len(result.datasets) : result.datasets[j].label = "Unknown"
       /\ \A j \in 1..Len(result.datasets) :
              result.datasets[j].label = "Unknown"
              => \A i \in 1..Len(result.labels) :
                     result.datasets[j].data[i] = Len(UnknownRows(result.labels[i]))

\* A product ratio over a row with a missing Product and a row with an empty
\* Product, both counted under Unknown
C12_Witness ==
    /\ query.name = "get_product_ratio"
    /\ \E i \in 1..Len(self_df.rows) :
           self_df.rows[i]["Launch Date"] # NaT /\ self_df.rows[i]["Product"] = ""
    /\ \E i \in 1..Len(self_df.rows) :
           self_df.rows[i]["Launch Date"] # NaT /\ self_df.rows[i]["Product"] = NaN
    /\ Len(result.datasets) = 1
    /\ result.datasets[1].label = "Unknown"
    /\ \E i \in 1..Len(result.labels) : result.datasets[1].data[i] >= 1

\* C13: get_win_rate_by_product has no dataset with an empty label, and
\* where a dated row has an empty or missing Product it has a dataset
\* labelled Unknown.
C13_ProductNormalizedInWinRate ==
    (query.name = "get_win_rate_by_product" /\ result.shape = "sliced")
    => /\ \A j \in 1..Len(result.datasets) : result.datasets[j].label \notin {"", NaN}
       /\ (\E i \in 1..Len(self_df.rows) :
               /\ self_df.rows[i]["Launch Date"] # NaT
               /\ self_df.rows[i]["Product"] \in {NaN, ""})
          => \E j \in 1..Len(result.datasets) : result.datasets[j].label = "Unknown"

\* Whether a row of a table with the given columns takes part in the answer
\* of the query q, which reads only columns the table has
TakesPart(row, q, columns) ==
    /\ row["Launch Date"] # NaT
    /\ q.name = "get_avg_production_time"
       => /\ row["Ad time to ready (days)"] # NaT
          /\ row["Ad time to ready (days)"][1] > 0
    /\ q.name = "get_avg_editing_time" => row["Editing Duration (minutes)"] # NaT
    /\ q.strategist # "" => row["Strategist"] # NaN /\ row["Strategist"] = q.strategist
    /\ q.editor # "" => row["Editor/Designer"] # NaN /\ row["Editor/Designer"] = q.editor
    /\ (q.status # "" /\ "Status" \in columns)
       => row["Status"] # NaN /\ Lower(row["Status"]) = Lower(q.status)

RowsTakingPart == SelectSeq(self_df.rows, LAMBDA r : TakesPart(r, query, self_df.columns))

\* The period key the documentation gives a row: the precomputed field
\* where the table has it, a key derived from Launch Date otherwise
DocumentedKey(row, q, columns) ==
    IF q.period = "quarter" THEN ToPeriodQ(row["Launch Date"])
    ELSE IF q.period = "week" /\ "Launch YY-WW" \in columns THEN row["Launch YY-WW"]
    ELSE IF q.period = "week" THEN ToPeriodW(row["Launch Date"])
    ELSE IF "Launch Month" \in columns THEN row["Launch Month"]
    ELSE ToPeriodM(row["Launch Date"])

\* C14: the labels of a month query are the Launch Month values of the
\* rows that take part where the table has that column, and the months of
\* their Launch Date where it has not; likewise for a week query of the
\* rate, time and volume queries with Launch YY-WW; the labels of a quarter
\* query are the quarters of the Launch Dates.
C14_PrecomputedKeyPreferred ==
    (/\ query.name # "none"
     /\ result.shape \in {"series", "sliced"}
     /\ ColumnsRead(query) \subseteq self_df.columns
     /\ ~(query.period = "week" /\ query.name \in RatioQueries))
    => Range(result.labels)
           = {DocumentedKey(RowsTakingPart[i], query, self_df.columns) :
                 i \in 1..Len(RowsTakingPart)}

\* A month query on a table with a Launch Month column, answered with the
\* value of that column and not with the month of the Launch Date
C14_Witness ==
    /\ query.period = "month"
    /\ "Launch Month" \in self_df.columns
    /\ result.labels = <<"Jan 2024">>
    /\ Len(RowsTakingPart) = 1
    /\ ToPeriodM(RowsTakingPart[1]["Launch Date"]) = "2024-01"

\* C15: the answer of a ratio query for period week is the answer of the
\* same query, with the same status filter, for period month.
C15_WeekRatioIsMonthRatio ==
    (query.name \in RatioQueries /\ query.period = "week")
    => result = Answer(self_df, [query EXCEPT !.period = "month"])

\* A ratio query for period week answered with month labels, on a table
\* whose rows have a week key
C15_Witness ==
    /\ query.name \in RatioQueries
    /\ query.period = "week"
    /\ result.labels = <<"Jan 2024", "Feb 2024">>
    /\ \A i \in 1..Len(self_df.rows) : self_df.rows[i]["Launch YY-WW"] \in {"2024-W03", "2024-W06"}
    /\ Len(result.datasets) >= 1

RatioValue(row, q) ==
    IF q.name = "get_product_ratio" /\ row["Product"] \in {NaN, ""} THEN "Unknown"
    ELSE row[SliceColumn(q)]

\* The dated rows that pass the status filter of the query
RatioRows ==
    SelectSeq(self_df.rows,
              LAMBDA r : r["Launch Date"] # NaT /\ PassesStatus(r, query))

\* C17: a cell of a ratio query is the number of dated rows that pass the
\* status filter, ignoring case, and have the period key of the label and
\* the dimension value of the dataset; the labels and the datasets are those
\* of the rows that pass the filter.
C17_RatioCellsAreCounts ==
    query.name \in RatioQueries
    => /\ result.shape = "sliced"
       /\ Range(result.labels)
              = {RatioPeriod(self_df.columns, RatioRows[k], query.period) :
                    k \in 1..Len(RatioRows)}
       /\ {result.datasets[j].label : j \in 1..Len(result.datasets)}
              = {RatioValue(RatioRows[k], query) : k \in 1..Len(RatioRows)} \ {NaN}
       /\ \A j \in 1..Len(result.datasets) : \A i \in 1..Len(result.labels) :
              result.datasets[j].data[i]
                  = Cardinality({k \in 1..Len(RatioRows) :
                        /\ RatioPeriod(self_df.columns, RatioRows[k], query.period)
                               = result.labels[i]
                        /\ RatioValue(RatioRows[k], query) = result.datasets[j].label})

\* A ratio query with the filter winner on a table with a row written Winner,
\* which is counted, and a dated row the filter rejects, whose period and
\* dimension value are not in the answer
C17_Witness ==
    /\ query.name \in RatioQueries
    /\ query.status = "winner"
    /\ Len(result.labels) = 1
    /\ Len(result.datasets) = 1
    /\ result.datasets[1].data = <<1>>
    /\ \E k \in 1..Len(self_df.rows) :
           /\ self_df.rows[k]["Launch Date"] # NaT
           /\ self_df.rows[k]["Status"] = "Winner"
    /\ \E k \in 1..Len(self_df.rows) :
           /\ self_df.rows[k]["Launch Date"] # NaT
           /\ ~PassesStatus(self_df.rows[k], query)
           /\ RatioPeriod(self_df.columns, self_df.rows[k], query.period)
                  \notin Range(result.labels)
           /\ RatioValue(self_df.rows[k], query) \notin {NaN, result.datasets[1].label}

\* The dimension value of each row a dimension-sliced query reads: the dated
\* rows, in a ratio query those that pass the status filter; Product as
\* get_product_ratio recodes it
SlicedValues ==
    IF query.name \in RatioQueries
    THEN [k \in 1..Len(RatioRows) |-> RatioValue(RatioRows[k], query)]
    ELSE [k \in 1..Len(DropUndated(self_df).rows) |->
             DropUndated(self_df).rows[k][SliceColumn(query)]]

\* The places where a value that is not missing occurs for the first time
FirstPlaces(values) ==
    {k \in 1..Len(values) :
        values[k] # NaN /\ \A earlier \in 1..(k - 1) : values[earlier] # values[k]}

\* The values that are not missing, each once, in the order of their first
\* occurrence
InFirstSeenOrder(values) ==
    [n \in 1..Cardinality(FirstPlaces(values)) |->
        values[CHOOSE k \in FirstPlaces(values) :
                   Cardinality({e \in FirstPlaces(values) : e < k}) = n - 1]]

\* C18: the dataset labels of a dimension-sliced query are the distinct
\* values of the dimension column that are not missing, an empty string
\* included, in the order in which they first occur in the table.
C18_DatasetsInFirstSeenOrder ==
    (query.name \in SlicedQueries /\ result.shape = "sliced")
    => [j \in 1..Len(result.datasets) |-> result.datasets[j].label]
           = InFirstSeenOrder(SlicedValues)

\* A sliced answer whose datasets are not in ascending order and whose second
\* dataset is that of the empty string
C18_Witness ==
    /\ query.name \in {"get_win_rate_by_ad_type", "get_format_ratio"}
    /\ result.shape = "sliced"
    /\ Len(result.datasets) = 2
    /\ result.datasets[1].label = "Bob"
    /\ result.datasets[2].label = ""

\* Whether some dated row of the table has the value in the column, case
\* ignored for Status
SomeDatedRowHas(column, value) ==
    \E k \in 1..Len(self_df.rows) :
        /\ self_df.rows[k]["Launch Date"] # NaT
        /\ self_df.rows[k][column] # NaN
        /\ IF column = "Status" THEN Lower(self_df.rows[k][column]) = Lower(value)
           ELSE self_df.rows[k][column] = value

\* A filter of the query is given and matches no dated row
SomeFilterMatchesNothing ==
    \/ query.strategist # "" /\ ~SomeDatedRowHas("Strategist", query.strategist)
    \/ query.editor # "" /\ ~SomeDatedRowHas("Editor/Designer", query.editor)
    \/ query.status # "" /\ ~SomeDatedRowHas("Status", query.status)

\* C19: a query whose strategist, editor or status filter matches no row
\* returns the empty result shape and does not raise.
C19_FilterWithoutMatchGivesEmpty ==
    (query.name # "none" /\ SomeFilterMatchesNothing) => result = EmptyShape(query)

\* get_creatives_volume for a strategist who has no row, on a table with two
\* dated rows of another strategist
C19_Witness ==
    /\ query.name = "get_creatives_volume"
    /\ query.strategist = "Bob"
    /\ query.status = ""
    /\ Len(self_df.rows) = 2
    /\ \A k \in 1..Len(self_df.rows) :
           /\ self_df.rows[k]["Launch Date"] # NaT
           /\ self_df.rows[k]["Strategist"] = "Ann"
    /\ result = EmptySeries

\* The dated rows with a positive production time, of the strategist where
\* one is given
PositiveRows ==
    SelectSeq(self_df.rows,
              LAMBDA r : /\ r["Launch Date"] # NaT
                         /\ r["Ad time to ready (days)"] # NaT
                         /\ r["Ad time to ready (days)"][1] > 0
                         /\ query.strategist # ""
                            => r["Strategist"] # NaN /\ r["Strategist"] = query.strategist)

PositiveRowsOf(label) ==
    SelectSeq(PositiveRows,
              LAMBDA r : RatePeriod(self_df.columns, r, query.period) = label)

\* C20: the labels of get_avg_production_time are the period keys of the
\* dated rows with a positive production time, and each value is the mean of
\* the production times of those rows of the period, to the nearest hundredth;
\* a row with a missing, zero or negative time is in no mean.
C20_MeanOverPositiveRowsOnly ==
    query.name = "get_avg_production_time"
    => /\ result.shape = "series"
       /\ Len(result.data) = Len(result.labels)
       /\ Range(result.labels)
              = {RatePeriod(self_df.columns, PositiveRows[k], query.period) :
                    k \in 1..Len(PositiveRows)}
       /\ \A i \in 1..Len(result.labels) :
              /\ 2 * (result.data[i] * Len(PositiveRowsOf(result.labels[i]))
                        - 100 * Sum(Column(PositiveRowsOf(result.labels[i]),
                                           "Ad time to ready (days)")))
                     <= Len(PositiveRowsOf(result.labels[i]))
              /\ 2 * (100 * Sum(Column(PositiveRowsOf(result.labels[i]),
                                       "Ad time to ready (days)"))
                        - result.data[i] * Len(PositiveRowsOf(result.labels[i])))
                     <= Len(PositiveRowsOf(result.labels[i]))

\* A table with a dated row whose production time is 0 or negative and a row
\* of another period with a positive time: only that period is answered
C20_Witness ==
    /\ query.name = "get_avg_production_time"
    /\ query.strategist = ""
    /\ Len(result.labels) = 1
    /\ result.data[1] > 0
    /\ \E k \in 1..Len(self_df.rows) :
           /\ self_df.rows[k]["Launch Date"] # NaT
           /\ self_df.rows[k]["Ad time to ready (days)"] # NaT
           /\ self_df.rows[k]["Ad time to ready (days)"][1] <= 0
           /\ RatePeriod(self_df.columns, self_df.rows[k], query.period)
                  \notin Range(result.labels)

\* The dated rows that pass the strategist and status filters of the query
VolumeRows ==
    SelectSeq(self_df.rows,
              LAMBDA r : /\ r["Launch Date"] # NaT
                         /\ PassesStatus(r, query)
                         /\ query.strategist # ""
                            => r["Strategist"] # NaN /\ r["Strategist"] = query.strategist)

RECURSIVE SumOfCounts(_)
SumOfCounts(counts) ==
    IF counts = << >> THEN 0 ELSE counts[1] + SumOfCounts(Tail(counts))

\* C21: each value of get_creatives_volume is the number of dated rows that
\* pass the strategist filter, exactly, and the status filter, ignoring
\* case, and have the period key of the label; the values add up to the
\* number of such rows.
C21_VolumeCountsFilteredRows ==
    query.name = "get_creatives_volume"
    => /\ result.shape = "series"
       /\ Len(result.data) = Len(result.labels)
       /\ \A i \in 1..Len(result.labels) :
              result.data[i]
                  = Cardinality({k \in 1..Len(VolumeRows) :
                        RatePeriod(self_df.columns, VolumeRows[k], query.period)
                            = result.labels[i]})
       /\ SumOfCounts(result.data) = Len(VolumeRows)

\* The volume of one strategist's winners: two rows of one period counted,
\* on a table whose rows all pass
C21_Witness ==
    /\ query.name = "get_creatives_volume"
    /\ query.strategist = "Bob"
    /\ query.status = "winner"
    /\ result.data = <<2>>
    /\ Len(VolumeRows) = 2

-----------------------------------------------------------------------------
(* Claims about chart access (SpecAccess) *)

\* C9: a response that carries the data of a chart goes to a superuser or to
\* a user whose UserChartAccess.charts holds the chart's key; this for the
\* chart API endpoints and for the WebSocket get_chart command.
C9_ChartDataOnlyWhenGranted ==
    (response.body = "chart data"
     /\ is_authenticated(request.user)
     /\ ~is_superuser(request.user))
    => response.chart \in charts[request.user]


-----------------------------------------------------------------------------
(* Claims about the streaming consumer (SpecStream) *)

\* The tasks on which cancel() was not called
TasksNotCancelled == {task \in 1..Len(tasks) : NotCancelled(tasks[task])}

\* C25: at most one streaming task exists on which cancel() was not called,
\* and a start_stream command that finds is_streaming true creates no task
\* and starts no send of a 'started' status.
C25_AtMostOneStreamingTask ==
    /\ [](Cardinality(TasksNotCancelled) <= 1)
    /\ [][(receive_start_stream /\ is_streaming)
          => /\ handler' = "idle"
             /\ UNCHANGED <<tasks, streaming_task, events>>]_vars

C25_Witness ==
    /\ request.target = "start_stream"
    /\ handler = "idle"
    /\ is_streaming
    /\ events = <<"connection", "started", "chart_data">>
    /\ Cardinality(TasksNotCancelled) = 1
    /\ Len(tasks) = 1

\* C26: while no handler runs, is_streaming is true only if there is a task
\* that was not cancelled, also after a send of the 'started' status failed.
C26_StreamingOnlyWithATask ==
    (handler = "idle" /\ connection = "open" /\ is_streaming)
    => TasksNotCancelled # {}

\* The last position below i of events that tells whether a stream is on
LastStatusBefore(i) ==
    CHOOSE j \in 0..(i - 1) :
        /\ j > 0 => events[j] \in {"started", "stopped", "disconnect"}
        /\ \A k \in (j + 1)..(i - 1) : events[k] \notin {"started", "stopped", "disconnect"}

\* C27: every charts_update comes after a 'started' status, with no 'stopped'
\* status and no disconnect between the two.
C27_UpdatesOnlyWhileStarted ==
    \A i \in 1..Len(events) :
        events[i] = "charts_update"
        => /\ LastStatusBefore(i) > 0
           /\ events[LastStatusBefore(i)] = "started"

C27_Witness ==
    /\ Len(events) = 6
    /\ events[2] = "started"
    /\ events[3] = "charts_update"
    /\ events[4] = "stopped"
    /\ events[5] = "started"
    /\ events[6] = "charts_update"
    /\ tasks = <<"cancelled", "waiting">>

\* C28: a connection whose scope has no user, or a user who is not
\* authenticated, is closed with 4001 and gets nothing else; an authenticated
\* user gets no close, and the connection message only on an accepted
\* connection.
C28_OnlyAuthenticatedAccepted ==
    IF scope_user = NoUser \/ ~is_authenticated(scope_user)
    THEN /\ connection \in {"new", "rejected"}
         /\ events = IF connection = "new" THEN << >> ELSE <<"close 4001">>
    ELSE /\ Count(events, "close 4001") = 0
         /\ Count(events, "connection") > 0
            => (connection \in {"open", "closed"} /\ events[1] = "connection")

C28_Witness ==
    /\ scope_user = AnonymousUser
    /\ connection = "rejected"
    /\ events = <<"close 4001">>


-----------------------------------------------------------------------------
(* Claims about the user views (SpecUsers) *)

\* C29: no two users have the same email address and no two users have the
\* same username, whatever invitations were handled, together or in turn.
C29_EmailsAndUsernamesUnique ==
    \A id, other \in 1..Len(users) :
        id # other
        => /\ users[id][1] # users[other][1]
           /\ users[id][2] # users[other][2]

\* C30: RemoveUserAPIView.post leaves the row of its requester as it is, and
\* answers 400 without any change when the id in the URL is the requester's;
\* the one change it can make is is_active = False in the row of that id, so
\* the rows of auth_user and of UserChartAccess are all kept.
C30_RemovalOnlyDeactivatesTarget ==
    [][\A requester \in Sessions(users), user_id \in 1..(Len(users) + 1) :
           RemoveUser(requester, user_id)
           => /\ chart_access' = chart_access
              /\ Len(users') = Len(users)
              /\ requester # 0 => users'[requester] = users[requester]
              /\ (IsSuperuser(users, requester) /\ user_id = requester)
                 => (http'[2] = 400 /\ users' = users)
              /\ \A id \in 1..Len(users) :
                     users'[id] # users[id]
                     => /\ id = user_id
                        /\ users'[id] = [users[id] EXCEPT ![3] = FALSE]]_vars

C30_Witness ==
    /\ http = Http("RemoveUserAPIView", 400)
    /\ Len(users) = 3
    /\ users[1][3]
    /\ ~users[2][3]
    /\ Len(chart_access) = 1

====
